---- MODULE Spec2Model ----
(***************************************************************************)
(* Model of the Rodeo publication workflow (actions/rodeo/post.py) and of  *)
(* the persisted collection store (actions/rodeo/config.py).               *)
(*                                                                         *)
(* Hex strings are sequences of character codes: 0..15 are the hex digits  *)
(* and XChar is the letter 'x' of a "0x" prefix.  An address is the        *)
(* sequence of its 40 hex digits.  Other strings that the code slices or   *)
(* tests by prefix (the image URI) are sequences of one-character strings. *)
(*                                                                         *)
(* The inspiration and rendering agents (src/art_agents.py) are modelled   *)
(* with the interpreter state they depend on: the salt of str hashes and   *)
(* the state of the process-wide random generator.                         *)
(*                                                                         *)
(* Specifications: Spec (post_to_rodeo by steps), SpecLive (the same with  *)
(* weak fairness of a call's steps), SpecStore (the store on its own),     *)
(* SpecShared (two processes on one store file), SpecInspo, SpecWords and  *)
(* SpecRender (the art agents).                                            *)
(***************************************************************************)
EXTENDS Integers, Sequences, FiniteSets, TLC

\* ------------------------------------------------------------------ bounds
MaxCalls == 2
StartMs == 1000
WaitMs == 700

\* --------------------------------------------------------------- constants
XChar == 16
AddrHexLen == 40
DaySeconds == 24 * 60 * 60

Nil == <<-1>>
NoToken == -1

Rep(d, n) == [i \in 1..n |-> d]

FACTORY_MAINNET ==
  <<15,1,8,1,4,2,1,3,10,5,14,15,8,5,6,10,10,10,1,15,13,11,0,15,7,15,3,7,5,5,6,9,1,6,8,13,8,14,7,3>>
MARKET_MAINNET ==
  <<1,3,2,3,6,3,10,3,11,11,15,4,7,14,0,6,12,15,6,4,2,13,13,1,8,14,9,1,7,3,14,3,6,4,5,4,6,12,9,9>>
FACTORY_SEPOLIA ==
  <<0,13,0,12,3,9,10,13,9,15,9,3,14,10,8,14,7,7,5,14,10,10,1,13,2,15,13,4,1,0,15,5,5,3,4,13,15,10,15,14>>
MARKET_SEPOLIA ==
  <<14,7,5,0,14,5,9,7,11,15,12,13,11,14,1,12,2,7,3,2,2,14,7,2,9,15,1,7,9,6,11,5,2,13,15,12,13,13,13,11>>

NETWORK_CONFIGS ==
  [n \in {"base-mainnet", "base-sepolia"} |->
     IF n = "base-mainnet"
       THEN [factory_address |-> FACTORY_MAINNET, drop_market_address |-> MARKET_MAINNET]
       ELSE [factory_address |-> FACTORY_SEPOLIA, drop_market_address |-> MARKET_SEPOLIA]]

SupportedNetworks == DOMAIN NETWORK_CONFIGS

DEFAULT_COLLECTION_URI == "https://bafybeieu72fdhr5caaop5uwwlnc6p6pfsotb6rolovk7mhc6k62q4c7nnq.ipfs.dweb.link/metadata.json"

\* ------------------------------------------------------------------ inputs
NetworkIds == SupportedNetworks \cup {"invalid-network"}

AddrA == <<1,2,3,4,5,6,7,8,9,0,1,2,3,4,5,6,7,8,9,0,1,2,3,4,5,6,7,8,9,0,1,2,3,4,5,6,7,8,9,0>>
AddrB == Rep(11, AddrHexLen)
WalletAddress == Rep(7, AddrHexLen)

\* topics as the receipt carries them: "0x" followed by hex digits
TopicSig == <<0, XChar, 1, 2, 3, 4>>
TopicA == <<0, XChar>> \o Rep(0, 24) \o AddrA
TopicB == <<0, XChar>> \o Rep(15, 24) \o AddrB
TopicShort == <<0, XChar>> \o Rep(5, AddrHexLen - 1)

\* the receipts a creation can return, by name; a receipt's logs are a
\* sequence of logs, each log being its sequence of topics
ReceiptLogs ==
  [r \in {"no_logs", "one_topic", "event", "short_topic"} |->
     CASE r = "no_logs" -> <<>>
       [] r = "one_topic" -> << <<TopicSig>>, <<>> >>
       [] r = "event" ->
            << <<>>, <<TopicSig>>, <<TopicSig, TopicB>>, <<TopicSig, TopicA>> >>
       [] OTHER -> << <<TopicSig, TopicShort>>, <<TopicSig, TopicA>> >>]

IPFS_PREFIX == <<"i","p","f","s",":","/","/">>
ImageUris ==
  { IPFS_PREFIX \o <<"Q","m">>,
    <<"h","t","t","p","s",":","/","/","x">>,
    <<"i","p","f","s",":","/">> }

\* name, description and category of a post: the end-to-end scenario's, and
\* one with every optional or checkable text empty
PostTexts ==
  { [name |-> "Abstract #1", description |-> "AI-generated artwork", category |-> "Art"],
    [name |-> "", description |-> "", category |-> ""] }
\* the end-to-end scenario's texts
ScenarioText == CHOOSE t \in PostTexts : t.name # ""
TxHashes == {"0xabcd", "0xef01"}
SaveOutcomes == {"ok", "open_failed", "write_failed"}

\* ------------------------------------------------------------------- state
VARIABLES
  collections,        \* RodeoConfig._collections: insertion-ordered dict
  file,               \* ~/.rodeo/collections.json
  fresh,              \* _collections of a store instance constructed later
  lastOp,             \* last store operation called directly, and the
                      \* networks loaded or set and not cleared since
  now,                \* wall clock, milliseconds
  pc,                 \* position of the running post_to_rodeo call
  calls,              \* number of post_to_rodeo calls started
  wallet_network,     \* wallet.network_id of the running call
  call_args,          \* image_uri, name, description, category of the call
  collection_address, \* local of initialize_collection / post_to_rodeo
  token_id,           \* local of post_to_rodeo
  txs,                \* every wallet.invoke_contract call, in order
  entry_store,        \* <<collections, file>> when the running call began
  results,            \* every finished call: its wallet network, image URI,
                      \* return value, and what it found and left in the store
  initial,            \* _collections when the process started
  hash_salt,          \* the process's string-hash key (PYTHONHASHSEED)
  rng,                \* state of the process-wide random generator
  ledger,             \* what the wallet answers for each asset
  d_pc,               \* position of the running get_onchain_inspiration
  balances,           \* local of _get_wallet_balances: insertion-ordered dict
  inspo,              \* every finished get_onchain_inspiration call
  worded,             \* every direct _generate_inspiration_words call
  r_pc,               \* position of the running script execution
  script,             \* NUM_PIECES, COLORS, THEME, INSPIRATION_DATA
  collection,         \* local of generate_collection
  renders,            \* every finished execute_script call
  procs,              \* two processes that run post_to_rodeo on one store
                      \* file: each one's position, store and locals
  shared_file,        \* the ~/.rodeo/collections.json the two share
  shared_log          \* their transactions and file writes, in order

inspoVars == <<ledger, d_pc, balances, inspo, worded>>
renderVars == <<r_pc, script, collection, renders>>
processVars == <<hash_salt, rng>>
sharedVars == <<procs, shared_file, shared_log>>
artVars == <<processVars, inspoVars, renderVars, sharedVars>>

vars == <<collections, file, fresh, lastOp, now, pc, calls, wallet_network,
          call_args, collection_address, token_id, txs, entry_store, results,
          initial, artVars>>

storeVars == <<collections, file>>
auxVars == <<fresh, lastOp, initial, artVars>>
callVars == <<calls, entry_store>>
localVars == <<wallet_network, call_args, collection_address, token_id>>

\* --------------------------------------------------------- store (config.py)
\* a dict is a sequence of [k, v] members with pairwise different keys
HasKey(d, k) == \E i \in 1..Len(d) : d[i].k = k

DictGet(d, k) ==
  IF HasKey(d, k) THEN d[CHOOSE i \in 1..Len(d) : d[i].k = k].v ELSE Nil

DictSet(d, k, v) ==
  IF HasKey(d, k)
    THEN [i \in 1..Len(d) |-> IF d[i].k = k THEN [k |-> k, v |-> v] ELSE d[i]]
    ELSE Append(d, [k |-> k, v |-> v])

DictDel(d, k) == SelectSeq(d, LAMBDA m : m.k # k)

\* json.load: members are read in order, a repeated key keeps its last value
RECURSIVE JsonLoad(_)
JsonLoad(members) ==
  IF members = <<>> THEN <<>>
  ELSE LET m == members[Len(members)]
       IN DictSet(JsonLoad(SubSeq(members, 1, Len(members) - 1)), m.k, m.v)

\* json.dump: one member per key, in insertion order
JsonDump(d) == d

FileMissing == [status |-> "missing", members |-> <<>>]
FileCorrupt == [status |-> "corrupt", members |-> <<>>]
FileOk(members) == [status |-> "ok", members |-> members]

_load_collections(f) ==
  IF f.status = "ok" THEN JsonLoad(f.members) ELSE <<>>

_save_collections(d, f, outcome) ==
  CASE outcome = "ok" -> FileOk(JsonDump(d))
    [] outcome = "open_failed" -> f
    [] OTHER -> FileCorrupt

\* mutant: the lookup misses every key
get_collection_address_Miss(d, network_id) == Nil

get_collection_address(d, network_id) == DictGet(d, network_id)

\* mutant: the address is not recorded
set_collection_address_Forgets(d, network_id, address) == d

set_collection_address(d, network_id, address) == DictSet(d, network_id, address)

clear_collection_address(d, network_id) == DictDel(d, network_id)

\* mutant: an unknown network silently gets the testnet configuration
get_network_config_Default(network_id) ==
  [raised |-> FALSE,
   config |-> NETWORK_CONFIGS[IF network_id \in DOMAIN NETWORK_CONFIGS
                                THEN network_id ELSE "base-sepolia"]]

\* RodeoConfig.get_network_config: the network's entry, or a ValueError
get_network_config(network_id) ==
  IF network_id \in DOMAIN NETWORK_CONFIGS
    THEN [raised |-> FALSE, config |-> NETWORK_CONFIGS[network_id]]
    ELSE [raised |-> TRUE, config |-> [factory_address |-> Nil, drop_market_address |-> Nil]]

\* Python truthiness of Optional[str]
Truthy(a) == a # Nil /\ Len(a) > 0

\* ------------------------------------------------------- helpers (post.py)
\* mutant: only the first character is compared
StartsWith_FirstChar(s, prefix) ==
  Len(s) >= 1 /\ Len(prefix) >= 1 /\ s[1] = prefix[1]

StartsWith(s, prefix) ==
  Len(s) >= Len(prefix) /\ SubSeq(s, 1, Len(prefix)) = prefix

\* mutant: s[-(n-1):]
Suffix_OffByOne(s, n) ==
  IF Len(s) <= n - 1 THEN s ELSE SubSeq(s, Len(s) - n + 2, Len(s))

\* s[-n:]
Suffix(s, n) == IF Len(s) <= n THEN s ELSE SubSeq(s, Len(s) - n + 1, Len(s))

\* Web3.to_checksum_address accepts exactly 40 hex digits (prefix optional)
IsAddress(s) == Len(s) = AddrHexLen /\ \A i \in 1..Len(s) : s[i] \in 0..15

\* mutant: the last log with more than one topic
FirstEventLog_Last(logs) ==
  IF \E i \in 1..Len(logs) : Len(logs[i]) > 1
    THEN CHOOSE i \in 1..Len(logs) :
           /\ Len(logs[i]) > 1
           /\ \A j \in (i + 1)..Len(logs) : Len(logs[j]) <= 1
    ELSE 0

\* index of the first log with more than one topic, 0 when there is none
FirstEventLog(logs) ==
  IF \E i \in 1..Len(logs) : Len(logs[i]) > 1
    THEN CHOOSE i \in 1..Len(logs) :
           /\ Len(logs[i]) > 1
           /\ \A j \in 1..(i - 1) : Len(logs[j]) <= 1
    ELSE 0

\* mutant: a receipt without the event yields a default address
ExtractCollectionAddress_Default(logs) ==
  LET i == FirstEventLog(logs) IN
  IF i = 0 THEN [kind |-> "ok", address |-> Rep(0, AddrHexLen)]
  ELSE LET a == Suffix(logs[i][2], AddrHexLen) IN
       IF IsAddress(a) THEN [kind |-> "ok", address |-> a]
                       ELSE [kind |-> "invalid", address |-> Nil]

\* the loop over factory_tx.logs: "none", "invalid" (to_checksum_address
\* raises) or "ok" with the address
ExtractCollectionAddress(logs) ==
  LET i == FirstEventLog(logs) IN
  IF i = 0 THEN [kind |-> "none", address |-> Nil]
  ELSE LET a == Suffix(logs[i][2], AddrHexLen) IN
       IF IsAddress(a) THEN [kind |-> "ok", address |-> a]
                       ELSE [kind |-> "invalid", address |-> Nil]

NoArgs == [image_uri |-> <<>>, name |-> "", description |-> "", category |-> ""]

\* the metadata dict built by post_to_rodeo
Metadata(a) ==
  LET base == [name |-> a.name, description |-> a.description, image |-> a.image_uri]
  IN IF a.category # "" THEN base @@ [category |-> a.category] ELSE base

required_fields == {"name", "description", "image"}

\* a receipt as the transaction log keeps it: the name of its logs in
\* ReceiptLogs, and its transaction hash
NoReceipt == [logs |-> "", transaction_hash |-> ""]

\* one wallet.invoke_contract call: "raised" when it raises, else "pending"
Tx(method, contract, args, ok) ==
  [call |-> calls, network_id |-> wallet_network, method |-> method,
   contract_address |-> contract, args |-> args,
   status |-> IF ok THEN "pending" ELSE "raised", receipt |-> NoReceipt]

\* the outcome of pending_transaction.wait() on the last transaction
Settle(ok, receipt) ==
  [txs EXCEPT ![Len(txs)].status = IF ok THEN "confirmed" ELSE "failed",
              ![Len(txs)].receipt = IF ok THEN receipt ELSE NoReceipt]

ErrUri == [kind |-> "error", msg |-> <<"Error: Image URI must start with 'ipfs://'">>]
ErrPost(inner) == [kind |-> "error", msg |-> <<"Error posting to Rodeo">> \o inner]
ErrInit(inner) == <<"Failed to initialize collection">> \o inner

\* post_to_rodeo returns: the result is handed to the caller
Finished(network_id, uri, res) ==
  [network_id |-> network_id, image_uri |-> uri, ret |-> res,
   store_changed |-> (<<collections', file'>> # entry_store'),
   record_before |-> get_collection_address(entry_store'[1], network_id),
   record_after |-> get_collection_address(collections', network_id),
   file_record_after |-> get_collection_address(_load_collections(file'), network_id)]

Return(res) ==
  /\ results' = Append(results, Finished(wallet_network, call_args.image_uri, res))
  /\ pc' = "idle"
  /\ wallet_network' = "" /\ call_args' = NoArgs
  /\ collection_address' = Nil /\ token_id' = NoToken

\* ------------------------------------------------------------------- Init
\* ------------------------------------------- the art agents, not running
NoScript == [NUM_PIECES |-> 0, COLORS |-> <<>>, THEME |-> "", INSPIRATION_DATA |-> <<>>]

RenderIdle == r_pc = "idle" /\ script = NoScript /\ collection = <<>> /\ renders = <<>>

\* ------------------------- the two processes on one store file, not started
ProcIds == {1, 2}

NoProcess ==
  [pc |-> "absent", collections |-> <<>>, loaded |-> <<>>, calls |-> 0,
   network_id |-> "", collection_address |-> Nil]

SharedIdle ==
  /\ procs = [p \in ProcIds |-> NoProcess]
  /\ shared_file = FileMissing
  /\ shared_log = <<>>

ArtIdle ==
  /\ hash_salt = 0 /\ rng = 0
  /\ ledger = <<>> /\ d_pc = "idle" /\ balances = <<>> /\ inspo = <<>>
  /\ worded = <<>>
  /\ RenderIdle
  /\ SharedIdle

InitFiles ==
  { FileMissing, FileOk(<<[k |-> "base-sepolia", v |-> AddrA]>>) }

Init ==
  /\ file \in InitFiles
  /\ collections = _load_collections(file)
  /\ fresh = <<>>
  /\ lastOp = [op |-> "none", network_id |-> "", address |-> Nil, set_keys |-> {}]
  /\ now = StartMs
  /\ pc = "idle"
  /\ calls = 0
  /\ wallet_network = "" /\ call_args = NoArgs
  /\ collection_address = Nil /\ token_id = NoToken
  /\ txs = <<>>
  /\ entry_store = <<collections, file>>
  /\ results = <<>>
  /\ initial = collections
  /\ ArtIdle

\* ------------------------------------------------- post_to_rodeo, by steps
\* entry of post_to_rodeo: the URI check
post_to_rodeo(network_id, uri, name, description, category) ==
  /\ pc = "idle" /\ calls < MaxCalls
  /\ UNCHANGED <<storeVars, auxVars, now, txs>>
  /\ calls' = calls + 1
  /\ entry_store' = <<collections, file>>
  /\ IF ~StartsWith(uri, IPFS_PREFIX)
       THEN /\ results' = Append(results, Finished(network_id, uri, ErrUri))
            /\ UNCHANGED <<pc, localVars>>
       ELSE /\ pc' = "initialize_collection"
            /\ wallet_network' = network_id
            /\ call_args' = [image_uri |-> uri, name |-> name,
                             description |-> description, category |-> category]
            /\ UNCHANGED <<collection_address, token_id, results>>

\* initialize_collection up to the lookup in the store
initialize_collection ==
  /\ pc = "initialize_collection"
  /\ UNCHANGED <<storeVars, auxVars, now, callVars, txs>>
  /\ IF get_network_config(wallet_network).raised
       THEN Return(ErrPost(<<"Unsupported network">>))
       ELSE LET stored == get_collection_address(collections, wallet_network) IN
            /\ IF Truthy(stored)
                 THEN pc' = "create_token" /\ collection_address' = stored
                 ELSE pc' = "invoke_create" /\ collection_address' = stored
            /\ UNCHANGED <<wallet_network, call_args, token_id, results>>

\* wallet.invoke_contract(factory, "createMultiTokenCollection", ...)
InvokeCreateCollection(ok) ==
  /\ pc = "invoke_create"
  /\ UNCHANGED <<storeVars, auxVars, now, callVars>>
  /\ txs' = Append(txs, Tx("createMultiTokenCollection",
                           get_network_config(wallet_network).config.factory_address,
                           [contractCreationNonce |-> now \div 1000,
                            contractURI |-> DEFAULT_COLLECTION_URI], ok))
  /\ IF ok THEN pc' = "wait_create" /\ UNCHANGED <<localVars, results>>
           ELSE Return(ErrPost(ErrInit(<<"Contract call failed">>)))

\* .wait() of the creation, then the extraction of the address
WaitCreateCollection(ok, receipt) ==
  /\ pc = "wait_create"
  /\ UNCHANGED <<storeVars, auxVars, callVars>>
  /\ ~ok => receipt = "no_logs"
  /\ txs' = Settle(ok, [logs |-> receipt, transaction_hash |-> ""])
  /\ now' = now + WaitMs
  /\ LET x == ExtractCollectionAddress(ReceiptLogs[receipt]) IN
     CASE ~ok -> Return(ErrPost(ErrInit(<<"Transaction wait failed">>)))
       [] ok /\ x.kind = "none" ->
            Return(ErrPost(ErrInit(<<"Could not find collection address in transaction logs">>)))
       [] ok /\ x.kind = "invalid" ->
            Return(ErrPost(ErrInit(<<"Invalid address">>)))
       [] OTHER -> /\ pc' = "invoke_grant"
                   /\ collection_address' = x.address
                   /\ UNCHANGED <<wallet_network, call_args, token_id, results>>

\* wallet.invoke_contract(collection, "grantMinter", ...)
InvokeGrantMinter(ok) ==
  /\ pc = "invoke_grant"
  /\ UNCHANGED <<storeVars, auxVars, now, callVars>>
  /\ txs' = Append(txs, Tx("grantMinter", collection_address,
                           [minter |-> get_network_config(wallet_network).config.drop_market_address], ok))
  /\ IF ok THEN pc' = "wait_grant" /\ UNCHANGED <<localVars, results>>
           ELSE Return(ErrPost(ErrInit(<<"Contract call failed">>)))

\* mutant: the address is recorded whether or not the grant was confirmed
WaitGrantMinter_PersistsAnyway(ok, saved) ==
  /\ pc = "wait_grant"
  /\ UNCHANGED <<auxVars, callVars>>
  /\ txs' = Settle(ok, NoReceipt)
  /\ now' = now + WaitMs
  /\ collections' = set_collection_address(collections, wallet_network,
                                           collection_address)
  /\ file' = _save_collections(collections', file, saved)
  /\ IF ok
       THEN /\ pc' = "create_token"
            /\ UNCHANGED <<localVars, results>>
       ELSE Return(ErrPost(ErrInit(<<"Transaction wait failed">>)))

\* .wait() of the grant, then config.set_collection_address
WaitGrantMinter(ok, saved) ==
  /\ pc = "wait_grant"
  /\ UNCHANGED <<auxVars, callVars>>
  /\ ~ok => saved = "ok"
  /\ txs' = Settle(ok, NoReceipt)
  /\ now' = now + WaitMs
  /\ IF ok
       THEN /\ collections' = set_collection_address(collections, wallet_network,
                                                     collection_address)
            /\ file' = _save_collections(collections', file, saved)
            /\ pc' = "create_token"
            /\ UNCHANGED <<localVars, results>>
       ELSE /\ UNCHANGED storeVars
            /\ Return(ErrPost(ErrInit(<<"Transaction wait failed">>)))

\* mutant: the sale is reached without waiting for the token transaction
create_token_NoWait(ok) ==
  /\ pc = "create_token"
  /\ UNCHANGED <<storeVars, auxVars, now, callVars>>
  /\ txs' = Append(txs, Tx("createToken", collection_address,
                           [tokenId |-> now,
                            tokenURI |-> [scheme |-> IPFS_PREFIX, json |-> Metadata(call_args)],
                            mintEndTime |-> (now \div 1000) + DaySeconds], ok))
  /\ IF ok THEN /\ pc' = "create_sale" /\ token_id' = now
                /\ UNCHANGED <<wallet_network, call_args, collection_address, results>>
           ELSE Return(ErrPost(<<"Failed to create token", "Contract call failed">>))

\* post_to_rodeo builds the metadata; create_token validates it and invokes
\* mutant: the id returned is read from the clock a second time
create_token_ReadsClockTwice(ok) ==
  /\ pc = "create_token"
  /\ UNCHANGED <<storeVars, auxVars, now, callVars>>
  /\ txs' = Append(txs, Tx("createToken", collection_address,
                           [tokenId |-> now,
                            tokenURI |-> [scheme |-> IPFS_PREFIX, json |-> Metadata(call_args)],
                            mintEndTime |-> (now \div 1000) + DaySeconds], ok))
  /\ IF ok THEN /\ pc' = "wait_token" /\ token_id' = now + 1
                /\ UNCHANGED <<wallet_network, call_args, collection_address, results>>
           ELSE Return(ErrPost(<<"Failed to create token", "Contract call failed">>))

create_token(ok) ==
  /\ pc = "create_token"
  /\ UNCHANGED <<storeVars, auxVars, now, callVars>>
  /\ LET metadata == Metadata(call_args) IN
     IF ~(required_fields \subseteq DOMAIN metadata)
       THEN Return(ErrPost(<<"Metadata must contain all required fields">>))
            /\ UNCHANGED txs
     ELSE IF ~StartsWith(metadata.image, IPFS_PREFIX)
       THEN Return(ErrPost(<<"Image URI in metadata must start with ipfs://">>))
            /\ UNCHANGED txs
     ELSE /\ txs' = Append(txs, Tx("createToken", collection_address,
                                   [tokenId |-> now,
                                    tokenURI |-> [scheme |-> IPFS_PREFIX, json |-> metadata],
                                    mintEndTime |-> (now \div 1000) + DaySeconds], ok))
          /\ IF ok THEN /\ pc' = "wait_token" /\ token_id' = now
                        /\ UNCHANGED <<wallet_network, call_args, collection_address, results>>
                   ELSE Return(ErrPost(<<"Failed to create token", "Contract call failed">>))

\* mutant: a failed wait of the token transaction is ignored
WaitCreateToken_IgnoresFailure(ok) ==
  /\ pc = "wait_token"
  /\ UNCHANGED <<storeVars, auxVars, callVars>>
  /\ txs' = Settle(ok, NoReceipt)
  /\ now' = now + WaitMs
  /\ pc' = "create_sale" /\ UNCHANGED <<localVars, results>>

\* mutant: a failed wait of the token transaction invokes createToken again
WaitCreateToken_Retries(ok) ==
  /\ pc = "wait_token"
  /\ UNCHANGED <<storeVars, auxVars, callVars>>
  /\ txs' = Settle(ok, NoReceipt)
  /\ now' = now + WaitMs
  /\ pc' = (IF ok THEN "create_sale" ELSE "create_token")
  /\ UNCHANGED <<localVars, results>>

\* .wait() of the token creation
WaitCreateToken(ok) ==
  /\ pc = "wait_token"
  /\ UNCHANGED <<storeVars, auxVars, callVars>>
  /\ txs' = Settle(ok, NoReceipt)
  /\ now' = now + WaitMs
  /\ IF ok THEN pc' = "create_sale" /\ UNCHANGED <<localVars, results>>
           ELSE Return(ErrPost(<<"Failed to create token", "Transaction wait failed">>))

\* mutant: the sale pays the collection contract instead of the wallet
create_sale_PaysCollection(ok) ==
  /\ pc = "create_sale"
  /\ UNCHANGED <<storeVars, auxVars, now, callVars>>
  /\ IF get_network_config(wallet_network).raised
       THEN Return(ErrPost(<<"Unsupported network">>)) /\ UNCHANGED txs
       ELSE /\ txs' = Append(txs, Tx("createFixedPriceSale",
                                     get_network_config(wallet_network).config.drop_market_address,
                                     [multiTokenContract |-> collection_address,
                                      tokenId |-> token_id,
                                      pricePerQuantity |-> 0,
                                      creatorPaymentAddress |-> collection_address,
                                      generalAvailabilityStartTime |-> 0], ok))
            /\ IF ok THEN pc' = "wait_sale" /\ UNCHANGED <<localVars, results>>
                     ELSE Return(ErrPost(<<"Failed to create sale", "Contract call failed">>))

create_sale(ok) ==
  /\ pc = "create_sale"
  /\ UNCHANGED <<storeVars, auxVars, now, callVars>>
  /\ IF get_network_config(wallet_network).raised
       THEN Return(ErrPost(<<"Unsupported network">>)) /\ UNCHANGED txs
       ELSE /\ txs' = Append(txs, Tx("createFixedPriceSale",
                                     get_network_config(wallet_network).config.drop_market_address,
                                     [multiTokenContract |-> collection_address,
                                      tokenId |-> token_id,
                                      pricePerQuantity |-> 0,
                                      creatorPaymentAddress |-> WalletAddress,
                                      generalAvailabilityStartTime |-> 0], ok))
            /\ IF ok THEN pc' = "wait_sale" /\ UNCHANGED <<localVars, results>>
                     ELSE Return(ErrPost(<<"Failed to create sale", "Contract call failed">>))

\* mutant: a failed sale forgets the collection record
WaitCreateSale_RollsBack(ok, sale_tx_hash) ==
  /\ pc = "wait_sale"
  /\ UNCHANGED <<auxVars, callVars>>
  /\ ~ok => sale_tx_hash = "0xabcd"
  /\ txs' = Settle(ok, [logs |-> "", transaction_hash |-> sale_tx_hash])
  /\ now' = now + WaitMs
  /\ file' = file
  /\ collections' = IF ok THEN collections
                          ELSE clear_collection_address(collections, wallet_network)
  /\ IF ok
       THEN Return([kind |-> "success",
                    network_id |-> wallet_network,
                    collection_address |-> collection_address,
                    token_id |-> token_id,
                    sale_tx_hash |-> sale_tx_hash,
                    rodeo_url |-> [collection_address |-> collection_address,
                                   token_id |-> token_id],
                    explorer_url |->
                      [host |-> IF wallet_network = "base-mainnet"
                                  THEN "basescan.org" ELSE "sepolia.basescan.org",
                       tx |-> sale_tx_hash]])
       ELSE Return(ErrPost(<<"Failed to create sale", "Transaction wait failed">>))

WaitCreateSale(ok, sale_tx_hash) ==
  /\ pc = "wait_sale"
  /\ UNCHANGED <<storeVars, auxVars, callVars>>
  /\ ~ok => sale_tx_hash = "0xabcd"
  /\ txs' = Settle(ok, [logs |-> "", transaction_hash |-> sale_tx_hash])
  /\ now' = now + WaitMs
  /\ IF ok
       THEN Return([kind |-> "success",
                    network_id |-> wallet_network,
                    collection_address |-> collection_address,
                    token_id |-> token_id,
                    sale_tx_hash |-> sale_tx_hash,
                    rodeo_url |-> [collection_address |-> collection_address,
                                   token_id |-> token_id],
                    explorer_url |->
                      [host |-> IF wallet_network = "base-mainnet"
                                  THEN "basescan.org" ELSE "sepolia.basescan.org",
                       tx |-> sale_tx_hash]])
       ELSE Return(ErrPost(<<"Failed to create sale", "Transaction wait failed">>))

Next ==
  \/ \E n \in NetworkIds, u \in ImageUris :
        post_to_rodeo(n, u, ScenarioText.name, ScenarioText.description,
                      ScenarioText.category)
  \/ initialize_collection
  \/ \E ok \in BOOLEAN : InvokeCreateCollection(ok)
  \/ \E ok \in BOOLEAN, r \in DOMAIN ReceiptLogs : WaitCreateCollection(ok, r)
  \/ \E ok \in BOOLEAN : InvokeGrantMinter(ok)
  \/ \E ok \in BOOLEAN, saved \in SaveOutcomes : WaitGrantMinter(ok, saved)
  \/ \E ok \in BOOLEAN : create_token(ok)
  \/ \E ok \in BOOLEAN : WaitCreateToken(ok)
  \/ \E ok \in BOOLEAN : create_sale(ok)
  \/ \E ok \in BOOLEAN, h \in TxHashes : WaitCreateSale(ok, h)

Spec == Init /\ [][Next]_vars

\* the steps of a running call: the interpreter runs the call's code on, and
\* every wallet.invoke_contract and every .wait() either returns or raises
CallSteps ==
  \/ initialize_collection
  \/ \E ok \in BOOLEAN : InvokeCreateCollection(ok)
  \/ \E ok \in BOOLEAN, r \in DOMAIN ReceiptLogs : WaitCreateCollection(ok, r)
  \/ \E ok \in BOOLEAN : InvokeGrantMinter(ok)
  \/ \E ok \in BOOLEAN, saved \in SaveOutcomes : WaitGrantMinter(ok, saved)
  \/ \E ok \in BOOLEAN : create_token(ok)
  \/ \E ok \in BOOLEAN : WaitCreateToken(ok)
  \/ \E ok \in BOOLEAN : create_sale(ok)
  \/ \E ok \in BOOLEAN, h \in TxHashes : WaitCreateSale(ok, h)

\* calls on a supported and on an unsupported network, with an ipfs and an
\* https image, and with the scenario's texts or empty ones
LiveNetworks == {"base-sepolia", "invalid-network"}
LiveUris == {u \in ImageUris : Len(u) = 9}

NextLive ==
  \/ \E n \in LiveNetworks, u \in LiveUris, t \in PostTexts :
        post_to_rodeo(n, u, t.name, t.description, t.category)
  \/ CallSteps

\* those calls, none of whose steps blocks for ever
SpecLive == Init /\ [][NextLive]_vars /\ WF_vars(CallSteps)

\* ------------------------------------------- the store used on its own
StoreFiles ==
  { FileMissing, FileCorrupt, FileOk(<<>>),
    FileOk(<<[k |-> "base-mainnet", v |-> AddrB], [k |-> "base-sepolia", v |-> AddrA]>>) }

StoreAddresses == {AddrA, AddrB}

Keys(d) == {d[i].k : i \in 1..Len(d)}

\* RodeoConfig(): the instance the operations below act on
InitStore ==
  /\ file \in StoreFiles
  /\ collections = _load_collections(file)
  /\ fresh = <<>>
  /\ lastOp = [op |-> "none", network_id |-> "", address |-> Nil,
               set_keys |-> Keys(collections)]
  /\ now = StartMs
  /\ pc = "idle"
  /\ calls = 0
  /\ wallet_network = "" /\ call_args = NoArgs
  /\ collection_address = Nil /\ token_id = NoToken
  /\ txs = <<>>
  /\ entry_store = <<collections, file>>
  /\ results = <<>>
  /\ initial = collections
  /\ ArtIdle

publishVars == <<now, pc, callVars, localVars, txs, results, initial, artVars>>

\* config.set_collection_address(network_id, address)
ConfigSet(network_id, address, saved) ==
  /\ collections' = set_collection_address(collections, network_id, address)
  /\ file' = _save_collections(collections', file, saved)
  /\ fresh' = <<>>
  /\ lastOp' = [op |-> "set", network_id |-> network_id, address |-> address,
                set_keys |-> lastOp.set_keys \cup {network_id}]
  /\ UNCHANGED publishVars

\* config.clear_collection_address(network_id)
ConfigClear(network_id, saved) ==
  /\ IF HasKey(collections, network_id)
       THEN /\ collections' = clear_collection_address(collections, network_id)
            /\ file' = _save_collections(collections', file, saved)
       ELSE /\ saved = "ok"
            /\ UNCHANGED storeVars
  /\ fresh' = <<>>
  /\ lastOp' = [op |-> IF HasKey(collections, network_id) THEN "clear" ELSE "clear_absent",
                network_id |-> network_id, address |-> Nil,
                set_keys |-> lastOp.set_keys \ {network_id}]
  /\ UNCHANGED publishVars

\* a second RodeoConfig() constructed from the file as it is now
NewInstance ==
  /\ lastOp.op # "init"
  /\ fresh' = _load_collections(file)
  /\ lastOp' = [lastOp EXCEPT !.op = "init"]
  /\ UNCHANGED <<storeVars, publishVars>>

NextStore ==
  \/ \E n \in SupportedNetworks, a \in StoreAddresses, saved \in SaveOutcomes :
        ConfigSet(n, a, saved)
  \/ \E n \in SupportedNetworks, saved \in SaveOutcomes : ConfigClear(n, saved)
  \/ NewInstance

SpecStore == InitStore /\ [][NextStore]_vars

\* ===================================================== src/art_agents.py
\* Text is a sequence of one-character strings.  A Decimal is its value in
\* millionths, a natural number (what int(v * 1000000) yields), and str() of
\* it is its shortest decimal form.
Digits == <<"0","1","2","3","4","5","6","7","8","9">>
HexDigits == Digits \o <<"a","b","c","d","e","f">>
Alphabet == HexDigits \o <<"A","B","C","D","E","F",".","x","t","h","u","s","#">>
Code(c) == CHOOSE i \in 1..Len(Alphabet) : Alphabet[i] = c
Range(s) == {s[i] : i \in 1..Len(s)}
Abs(n) == IF n < 0 THEN -n ELSE n
Micro == 10^6

\* str(n) of a non-negative int
RECURSIVE IntStr(_)
IntStr(n) ==
  IF n < 10 THEN <<Digits[n + 1]>>
  ELSE IntStr(n \div 10) \o <<Digits[(n % 10) + 1]>>

\* format(n, "0<width>x")
RECURSIVE Hex(_, _)
Hex(n, width) ==
  IF width <= 1 /\ n < 16 THEN <<HexDigits[n + 1]>>
  ELSE Hex(n \div 16, width - 1) \o <<HexDigits[(n % 16) + 1]>>

RECURSIVE PadDigits(_, _)
PadDigits(f, width) ==
  IF width = 0 THEN <<>>
  ELSE PadDigits(f \div 10, width - 1) \o <<Digits[(f % 10) + 1]>>

RECURSIVE StripZeros(_)
StripZeros(s) ==
  IF s # <<>> /\ s[Len(s)] = "0" THEN StripZeros(SubSeq(s, 1, Len(s) - 1)) ELSE s

\* str(Decimal)
DecimalStr(m) ==
  IntStr(m \div Micro) \o
    (IF m % Micro = 0 THEN <<>> ELSE <<".">> \o StripZeros(PadDigits(m % Micro, 6)))

\* python s[a:b]
Slice(s, a, b) == SubSeq(s, a + 1, IF b < Len(s) THEN b ELSE Len(s))

RECURSIVE Fold(_, _, _)
Fold(h, s, m) ==
  IF s = <<>> THEN h ELSE Fold((31 * h + Code(s[1])) % m, Tail(s), m)

\* ------------------------------------------------- the random module
\* The generator is a state that every draw advances and that seed() sets
\* from the text alone.  A linear congruential generator modulo RngMod stands
\* for the Mersenne Twister; a draw is the fraction state / RngMod of the
\* state it leaves.
RngMod == 2^7
RngNext(s) == (5 * s + 3) % RngMod

\* n draws in one: the pair <<a, b>> with state -> (a * state + b) % RngMod
RECURSIVE RngPower(_)
RngPower(n) ==
  IF n = 0 THEN <<1, 0>>
  ELSE IF n % 2 = 0
    THEN LET h == RngPower(n \div 2)
         IN <<(h[1] * h[1]) % RngMod, (h[1] * h[2] + h[2]) % RngMod>>
    ELSE LET h == RngPower(n - 1)
         IN <<(5 * h[1]) % RngMod, (5 * h[2] + 3) % RngMod>>

\* the state n draws later
Advance(s, n) == LET h == RngPower(n) IN (h[1] * s + h[2]) % RngMod

\* random.seed(text)
SeedState(text) == Fold(7, text, RngMod)

\* int(random.random() * k) of the draw that left state s
Scaled(s, k) == (s * k) \div RngMod

\* random.randint(lo, hi) of the draw that left state s
randint(s, lo, hi) == lo + Scaled(s, hi - lo + 1)

\* random.sample(population, k) from state s: the picks and the state left
RECURSIVE sample(_, _, _)
sample(population, k, s) ==
  IF k = 0 THEN [picked |-> <<>>, rng |-> s]
  ELSE LET s1 == RngNext(s)
           i == 1 + Scaled(s1, Len(population))
           rest == sample(SubSeq(population, 1, i - 1) \o
                            SubSeq(population, i + 1, Len(population)), k - 1, s1)
       IN [picked |-> <<population[i]>> \o rest.picked, rng |-> rest.rng]

\* ------------------------------------------------- hash() of a str
\* Keyed by a salt the interpreter draws when the process starts; the result
\* is a signed integer of HashBits bits (64 in CPython).
HashBits == 16
HashMod == 2^HashBits
HashSalts == {11, 12, 14}
StrHash(salt, text) == Fold(salt, text, HashMod) - HashMod \div 2

\* ------------------------------------------------- InspoAgent
pool_factory == <<"0","x","4","2","0","d","d","3","8","1","b","3","1","a","e","f","6","6","8","3","d","b","6","b","9","0","2","0","8","4","c","b","0","f","f","e","c","e","4","0","d","a">>
aero_token == <<"0","x","9","4","0","1","8","1","a","9","4","a","3","5","a","4","5","6","9","e","4","5","2","9","a","3","c","d","f","b","7","4","e","3","8","f","d","9","8","6","3","1">>
position_manager == <<"0","x","8","2","7","9","2","2","6","8","6","1","9","0","7","9","0","b","3","7","2","2","9","f","d","0","6","0","8","4","3","5","0","e","7","4","4","8","5","b","7","2">>
contracts == <<pool_factory, aero_token, position_manager>>
assets == <<<<"e","t","h">>, <<"u","s","d","c">>>> \o contracts

Raised == -1

\* sum(balances.values())
RECURSIVE SumValues(_)
SumValues(b) == IF b = <<>> THEN 0 ELSE b[1].v + SumValues(Tail(b))

\* the fractional digits str() shows of a Decimal in shortest form
Places(m) == IF m % Micro = 0 THEN 0 ELSE Len(StripZeros(PadDigits(m % Micro, 6)))

\* the fractional digits of sum(balances.values()): a sum of Decimals keeps
\* the smallest exponent of its terms, so 0.5 + 0.5 is 1.0 and not 1
RECURSIVE SumPlaces(_)
SumPlaces(b) ==
  IF b = <<>> THEN 0
  ELSE LET rest == SumPlaces(Tail(b))
       IN IF Places(b[1].v) > rest THEN Places(b[1].v) ELSE rest

\* str(sum(balances.values()))
TotalStr(b) ==
  IntStr(SumValues(b) \div Micro) \o
    (IF SumPlaces(b) = 0 THEN <<>>
     ELSE <<".">> \o SubSeq(PadDigits(SumValues(b) % Micro, 6), 1, SumPlaces(b)))

\* ''.join([str(b) for b in balances.values()])
RECURSIVE JoinValues(_)
JoinValues(b) == IF b = <<>> THEN <<>> ELSE DecimalStr(b[1].v) \o JoinValues(Tail(b))

\* sum(abs(b % 1000000) for b in balance_ints)
RECURSIVE balance_sum(_)
balance_sum(b) == IF b = <<>> THEN 0 ELSE (b[1].v % Micro) + balance_sum(Tail(b))

AddressColours ==
  [i \in 1..Len(contracts) |-> <<"#">> \o Slice(contracts[i], 2, 8)]

\* mutant: the loop stops one colour short
RECURSIVE FillPalette_Short(_, _, _)
FillPalette_Short(colors, b, s) ==
  IF Len(colors) >= 4 THEN [colors |-> colors, rng |-> s]
  ELSE FillPalette_Short(Append(colors, <<"#">> \o Hex(balance_sum(b) % 16777215, 6)), b, s)

\* the while loop of _generate_color_palette_from_data, with the generator
\* state s: the colours and the state left
RECURSIVE FillPalette(_, _, _)
FillPalette(colors, b, s) ==
  IF Len(colors) >= 5 THEN [colors |-> colors, rng |-> s]
  ELSE LET own == balance_sum(b)
           s1 == IF own = 0 THEN RngNext(s) ELSE s
           n == IF own = 0 THEN randint(s1, 0, 16777215) ELSE own
           color == <<"#">> \o Hex(n % 16777215, 6)
       IN IF color \notin Range(colors)
            THEN FillPalette(Append(colors, color), b, s1)
            ELSE LET s2 == RngNext(s1)
                     variation == <<"#">> \o Hex(Scaled(s2, 16777215), 6)
                 IN FillPalette(Append(colors, variation), b, s2)

_generate_color_palette_from_data(b, s) ==
  LET filled == FillPalette(AddressColours, b, s)
  IN [colors |-> Slice(filled.colors, 0, 5), rng |-> filled.rng]

themes ==
  <<"Cyberpunk", "Nature", "Abstract", "Geometric", "Space", "Ocean", "Urban", "Minimal">>

_determine_theme_from_balances(salt, b) ==
  themes[(Abs(StrHash(salt, TotalStr(b))) % Len(themes)) + 1]

theme_words ==
  [t \in Range(themes) |->
     CASE t = "Cyberpunk" -> <<"neon", "digital", "future", "tech", "grid">>
       [] t = "Nature" -> <<"organic", "flow", "growth", "life", "bloom">>
       [] t = "Abstract" -> <<"form", "chaos", "harmony", "motion", "space">>
       [] t = "Geometric" -> <<"pattern", "structure", "order", "shape", "line">>
       [] t = "Space" -> <<"cosmic", "void", "star", "nebula", "galaxy">>
       [] t = "Ocean" -> <<"wave", "depth", "fluid", "current", "float">>
       [] t = "Urban" -> <<"city", "street", "pulse", "rhythm", "edge">>
       [] OTHER -> <<"simple", "clean", "pure", "essence", "void">>]

\* the words and the generator state left
_generate_inspiration_words(b, theme) ==
  LET base_words == IF theme \in DOMAIN theme_words THEN theme_words[theme]
                    ELSE <<"energy", "form", "motion", "space", "time">>
      s1 == RngNext(SeedState(TotalStr(b)))
      num_words == randint(s1, 3, 5)
  IN sample(base_words, num_words, s1)

DefaultInspiration(timestamp) ==
  [num_pieces |-> 10,
   color_palette |-> <<<<"#","F","F","0","0","0","0">>, <<"#","0","0","F","F","0","0">>, <<"#","0","0","0","0","F","F">>,
                       <<"#","F","F","F","F","0","0">>, <<"#","F","F","0","0","F","F">>>>,
   theme |-> "Abstract",
   inspiration_words |-> <<"digital", "flow", "energy", "motion", "balance">>,
   timestamp |-> timestamp,
   balances |-> <<>>]

\* json.dumps raises TypeError on a dict that holds a Decimal
JsonSerializable(b) == b = <<>>

\* the try block of get_onchain_inspiration after the balances are read, from
\* the salt and the balances: the dict of lines 84-91, whether line 93 raised,
\* and the generator state left
BuildInspiration(salt, b, timestamp) ==
  LET s1 == RngNext(SeedState(JoinValues(b)))
      num_pieces == randint(s1, 1, 420)
      palette == _generate_color_palette_from_data(b, s1)
      theme == _determine_theme_from_balances(salt, b)
      words == _generate_inspiration_words(b, theme)
  IN [inspiration |-> [num_pieces |-> num_pieces,
                       color_palette |-> palette.colors,
                       theme |-> theme,
                       inspiration_words |-> words.picked,
                       timestamp |-> timestamp,
                       balances |-> b],
      raised |-> ~JsonSerializable(b),
      rng |-> words.rng]

\* ------------------------------------------- InspoAgent, by steps
MaxDerives == 2
MaxRenders == 2

\* wallet.balance(asset_id) for each of assets, in millionths, or Raised
Ledgers ==
  { <<0, 0, 0, 0, 0>>,
    <<9223810, 0, 0, 0, 0>>,
    <<6786431, 0, 0, 0, 0>>,
    <<1500000, Raised, 250000, Raised, 2000000>>,
    <<Raised, Raised, Raised, Raised, Raised>> }

RngStarts == {0, 77}

rodeoVars == <<collections, file, fresh, lastOp, now, pc, calls, wallet_network,
               call_args, collection_address, token_id, txs, entry_store,
               results, initial, sharedVars>>

\* the publication workflow and its store, not running
RodeoIdle ==
  /\ file = FileOk(<<>>)
  /\ collections = _load_collections(file)
  /\ fresh = <<>>
  /\ lastOp = [op |-> "none", network_id |-> "", address |-> Nil, set_keys |-> {}]
  /\ now = StartMs
  /\ pc = "idle"
  /\ calls = 0
  /\ wallet_network = "" /\ call_args = NoArgs
  /\ collection_address = Nil /\ token_id = NoToken
  /\ txs = <<>>
  /\ entry_store = <<collections, file>>
  /\ results = <<>>
  /\ initial = collections
  /\ SharedIdle

InspoIdle ==
  /\ ledger = <<>> /\ d_pc = "idle" /\ balances = <<>> /\ inspo = <<>>
  /\ worded = <<>>

InitInspo ==
  /\ RodeoIdle
  /\ hash_salt \in HashSalts
  /\ rng \in RngStarts
  /\ ledger \in Ledgers
  /\ d_pc = "idle" /\ balances = <<>> /\ inspo = <<>> /\ worded = <<>>
  /\ RenderIdle

\* a finished get_onchain_inspiration call: the process it ran in, whether
\* get_art_wallet() returned, whether the try block raised, the balances read,
\* the dict built at lines 84-91 (none when the call did not get there) and
\* the dict returned
Derived(wallet_ok, raised, read, built, returned) ==
  [hash_salt |-> hash_salt, wallet_ok |-> wallet_ok, raised |-> raised,
   balances |-> read, built |-> built, returned |-> returned]

\* get_onchain_inspiration up to get_art_wallet()
get_onchain_inspiration(wallet_ok) ==
  /\ d_pc = "idle" /\ Len(inspo) < MaxDerives
  /\ balances' = <<>>
  /\ IF wallet_ok
       THEN d_pc' = "_get_wallet_balances" /\ UNCHANGED inspo
       ELSE /\ d_pc' = "idle"
            /\ inspo' = Append(inspo, Derived(FALSE, TRUE, <<>>, <<>>,
                                              DefaultInspiration(now \div 1000)))
  /\ UNCHANGED <<rodeoVars, processVars, ledger, worded, renderVars>>

\* mutant: after a read has failed every later read counts as failed
_get_wallet_balances_FailsOnward ==
  /\ d_pc = "_get_wallet_balances" /\ Len(balances) < Len(assets)
  /\ LET asset_id == assets[Len(balances) + 1]
         answer == ledger[Len(balances) + 1]
         balance == IF \E j \in 1..(Len(balances) + 1) : ledger[j] = Raised
                    THEN 0 ELSE answer
     IN balances' = DictSet(balances, asset_id, balance)
  /\ UNCHANGED <<rodeoVars, processVars, ledger, d_pc, inspo, worded, renderVars>>

\* one turn of the loop of _get_wallet_balances
_get_wallet_balances ==
  /\ d_pc = "_get_wallet_balances" /\ Len(balances) < Len(assets)
  /\ LET asset_id == assets[Len(balances) + 1]
         answer == ledger[Len(balances) + 1]
         balance == IF answer = Raised THEN 0 ELSE answer
     IN balances' = DictSet(balances, asset_id, balance)
  /\ UNCHANGED <<rodeoVars, processVars, ledger, d_pc, inspo, worded, renderVars>>

\* mutant: the dict built is returned although printing it raised
ReturnInspiration_NoCatch ==
  /\ d_pc = "_get_wallet_balances" /\ Len(balances) = Len(assets)
  /\ LET r == BuildInspiration(hash_salt, balances, now \div 1000)
     IN /\ rng' = r.rng
        /\ inspo' = Append(inspo,
                      Derived(TRUE, r.raised, balances, <<r.inspiration>>,
                              r.inspiration))
  /\ d_pc' = "idle"
  /\ UNCHANGED <<rodeoVars, hash_salt, ledger, balances, worded, renderVars>>

\* the rest of get_onchain_inspiration
ReturnInspiration ==
  /\ d_pc = "_get_wallet_balances" /\ Len(balances) = Len(assets)
  /\ LET r == BuildInspiration(hash_salt, balances, now \div 1000)
     IN /\ rng' = r.rng
        /\ inspo' = Append(inspo,
                      Derived(TRUE, r.raised, balances, <<r.inspiration>>,
                              IF r.raised THEN DefaultInspiration(now \div 1000)
                              ELSE r.inspiration))
  /\ d_pc' = "idle"
  /\ UNCHANGED <<rodeoVars, hash_salt, ledger, balances, worded, renderVars>>

\* the program is started again: a new salt, a new generator state (while
\* the agents have calls left to make)
NewProcess ==
  /\ d_pc = "idle" /\ r_pc = "idle"
  /\ Len(inspo) < MaxDerives /\ Len(renders) < MaxRenders
  /\ hash_salt' \in HashSalts
  /\ rng' \in RngStarts
  /\ <<hash_salt', rng'>> # <<hash_salt, rng>>
  /\ UNCHANGED <<rodeoVars, inspoVars, renderVars>>

NextInspo ==
  \/ \E wallet_ok \in BOOLEAN : get_onchain_inspiration(wallet_ok)
  \/ _get_wallet_balances
  \/ ReturnInspiration
  \/ NewProcess

SpecInspo == InitInspo /\ [][NextInspo]_vars

\* ------------------------------------------------- ArtistAgent
WIDTH == 2048
HEIGHT == 2048

IsHex(ch) == ch \in Range(HexDigits) \cup {"A", "B", "C", "D", "E", "F"}

\* PIL ImageColor.getrgb accepts "#" followed by 3, 4, 6 or 8 hex digits
\* (colour names and functional notations do not occur in the inputs)
GetRgbOk(c) ==
  /\ Len(c) \in {4, 5, 7, 9}
  /\ c[1] = "#"
  /\ \A i \in 2..Len(c) : IsHex(c[i])

\* the two hex digits of an alpha value
Alpha == <<"c", "8">>

\* f"#{color[1:7]}{alpha:02x}" is a colour draw.line accepts
LineColourOk(color) == GetRgbOk(<<"#">> \o Slice(color, 1, 7) \o Alpha)

\* math.log of a float given in millionths, in millionths, for the totals of
\* the inspirations rendered
math_log ==
  [x \in {1000000, 2000000, 2500000} |->
     CASE x = 1000000 -> 0
       [] x = 2000000 -> 693147
       [] OTHER -> 916291]

\* math.log(float(total_balance) + 1) + 1, in millionths
balance_factor(total_balance) == math_log[total_balance + Micro] + Micro

\* str(balances) of a dict
RECURSIVE DictStr(_)
DictStr(b) ==
  IF b = <<>> THEN <<>> ELSE b[1].k \o DecimalStr(b[1].v) \o DictStr(Tail(b))

\* hash(...) % (2**32): the low half of the hash's bits
SeedMod == 2^(HashBits \div 2)

\* the colour index of the curve that starts with the generator in state s
CurveColourIndex(s, n) ==
  LET sx == RngNext(s)
      sy == RngNext(sx)
      x == randint(sx, 0, WIDTH - 1)
      y == randint(sy, 0, HEIGHT - 1)
  IN ((x * n) \div WIDTH + (y * n) \div HEIGHT) % n

\* the first curve whose colour draw.line rejects, or 0
FirstBadCurve(colors, num_curves, per_curve, s) ==
  IF \A i \in 1..Len(colors) : LineColourOk(colors[i]) THEN 0
  ELSE LET bad == {c \in 1..num_curves :
                     ~LineColourOk(colors[1 + CurveColourIndex(
                                      Advance(s, (c - 1) * per_curve), Len(colors))])}
       IN IF bad = {} THEN 0 ELSE CHOOSE c \in bad : \A d \in bad : c <= d

\* an image: what determines its bytes.  drawn_from is the generator state
\* the curve and texture draws start from.
ArtImage(piece, background, seed, flow_scale, num_curves, curve_length, theme, s) ==
  [kind |-> "art", token_id |-> piece, background |-> background,
   seed |-> seed, flow_scale |-> flow_scale, num_curves |-> num_curves,
   curve_length |-> curve_length, theme |-> theme, drawn_from |-> s,
   mode |-> "RGB", size |-> <<WIDTH, HEIGHT>>]

\* the fallback of create_art: Image.new('RGB', (2048, 2048), colors[0])
FlatImage(piece, background) ==
  [kind |-> "flat", token_id |-> piece, background |-> background,
   seed |-> 0, flow_scale |-> 0, num_curves |-> 0,
   curve_length |-> 0, theme |-> "", drawn_from |-> 0,
   mode |-> "RGB", size |-> <<2048, 2048>>]

NoImage == FlatImage(-1, <<>>)

\* create_art(token_id, inspiration_data, colors, theme), token_id being
\* piece, in the process with
\* this salt and the generator in state s: whether it raised, the image it
\* returned, and the generator state left
create_art(piece, inspiration_data, colors, theme, salt, s) ==
  IF colors = <<>> \/ ~GetRgbOk(colors[1])
    THEN \* Image.new raises in the try block and again in the handler
         [raised |-> TRUE, image |-> NoImage, rng |-> s]
    ELSE
      LET total_balance == SumValues(inspiration_data)
          factor == balance_factor(total_balance)
          flow_scale == 5 * factor
          seed == StrHash(salt, IntStr(piece) \o DictStr(inspiration_data)) % SeedMod
          base_curves == (50 * factor) \div Micro
          base_length == (200 * factor) \div Micro
          num_curves == CASE theme = "Geometric" -> base_curves * 2
                          [] theme = "Abstract" -> (base_curves * 3) \div 2
                          [] OTHER -> base_curves
          curve_length == CASE theme = "Geometric" -> base_length \div 2
                            [] theme = "Abstract" -> (base_length * 6) \div 5
                            [] OTHER -> base_length
          grid_ok ==
            theme = "Cyberpunk" =>
              /\ Len(colors) >= 4
              /\ GetRgbOk(<<"#">> \o Slice(colors[2], 1, 3) \o Slice(colors[3], 3, 5)
                            \o Slice(colors[4], 5, 7) \o Alpha)
              /\ GetRgbOk(<<"#">> \o Slice(colors[3], 1, 3) \o Slice(colors[4], 3, 5)
                            \o Slice(colors[2], 5, 7) \o Alpha)
          per_curve == 2 + curve_length
          bad_curve == FirstBadCurve(colors, num_curves, per_curve, s)
          texture == theme \in {"Nature", "Abstract"}
          flat == FlatImage(piece, colors[1])
      IN CASE ~grid_ok -> [raised |-> FALSE, image |-> flat, rng |-> s]
           [] grid_ok /\ bad_curve > 0 ->
                [raised |-> FALSE, image |-> flat,
                 rng |-> Advance(s, bad_curve * per_curve)]
           [] grid_ok /\ bad_curve = 0 /\ texture /\ ~LineColourOk(colors[Len(colors)]) ->
                [raised |-> FALSE, image |-> flat,
                 rng |-> Advance(s, num_curves * per_curve + 4)]
           [] OTHER ->
                [raised |-> FALSE,
                 image |-> ArtImage(piece, colors[1], seed, flow_scale,
                                    num_curves, curve_length, theme, s),
                 rng |-> Advance(s, num_curves * per_curve
                                      + (IF texture THEN 4 * 1000 ELSE 0))]

\* mutant: the smaller of the two
Max_Least(a, b) == IF a <= b THEN a ELSE b

Max(a, b) == IF a >= b THEN a ELSE b

\* ------------------------------------------- ArtistAgent, by steps

DefaultPalette ==
  <<<<"#","F","F","0","0","0","0">>, <<"#","0","0","F","F","0","0">>, <<"#","0","0","0","0","F","F">>, <<"#","F","F","F","F","0","0">>, <<"#","F","F","0","0","F","F">>>>

Eth == <<"e","t","h">>

\* the inspirations rendered
Inspirations ==
  { [num_pieces |-> 2, color_palette |-> DefaultPalette, theme |-> "Abstract",
     balances |-> <<[k |-> Eth, v |-> 1500000]>>],
    [num_pieces |-> 1, color_palette |-> <<<<"i","n","v","a","l","i","d","_","c","o","l","o","r">>>>, theme |-> "Abstract",
     balances |-> <<[k |-> Eth, v |-> 1000000]>>],
    [num_pieces |-> 2,
     color_palette |-> <<<<"#","0","0","0","0","0","0">>, <<"i","n","v","a","l","i","d","_","c","o","l","o","r">>, <<"#","F","F","F","F","F","F">>>>,
     theme |-> "Urban", balances |-> <<[k |-> Eth, v |-> 1000000]>>],
    [num_pieces |-> 1,
     color_palette |-> <<<<"#","0","0","0","0","0","0">>, <<"#","F","F","F","F","F","F">>, <<"#","0","0","F","F","0","0">>>>,
     theme |-> "Cyberpunk", balances |-> <<[k |-> Eth, v |-> 1000000]>>],
    [num_pieces |-> -1, color_palette |-> <<<<"#","F","F","0","0","0","0">>>>, theme |-> "InvalidTheme",
     balances |-> <<>>],
    [num_pieces |-> 0, color_palette |-> <<<<"#","F","F","0","0","0","0">>>>, theme |-> "InvalidTheme",
     balances |-> <<>>],
    [num_pieces |-> 1, color_palette |-> <<<<"#","0","0","0","0","0","0">>, <<"#","F","F","F","F","F","F">>>>,
     theme |-> "Geometric", balances |-> <<[k |-> Eth, v |-> 1000000]>>] }

InitRender ==
  /\ RodeoIdle
  /\ hash_salt \in HashSalts
  /\ rng \in RngStarts
  /\ InspoIdle
  /\ RenderIdle

\* a finished execute_script call: the process it ran in, the script's
\* parameters and the list returned
Rendered(images) == [hash_salt |-> hash_salt, script |-> script, images |-> images]

\* generate_art_script(inspiration), and execute_script up to the call of
\* generate_collection
generate_art_script(inspiration) ==
  /\ r_pc = "idle" /\ Len(renders) < MaxRenders
  /\ script' = [NUM_PIECES |-> inspiration.num_pieces,
                COLORS |-> inspiration.color_palette,
                THEME |-> inspiration.theme,
                INSPIRATION_DATA |-> inspiration.balances]
  /\ collection' = <<>>
  /\ r_pc' = "generate_collection"
  /\ UNCHANGED <<rodeoVars, processVars, inspoVars, renders>>

\* one turn of the loop of generate_collection; an exception that leaves
\* create_art ends the script, and execute_script returns []
generate_collection ==
  /\ r_pc = "generate_collection"
  /\ Len(collection) < Max(1, script.NUM_PIECES)
  /\ \E r \in {create_art(Len(collection), script.INSPIRATION_DATA, script.COLORS,
                          script.THEME, hash_salt, rng)} :
        /\ rng' = r.rng
        /\ IF r.raised
             THEN /\ renders' = Append(renders, Rendered(<<>>))
                  /\ collection' = <<>>
                  /\ r_pc' = "idle"
             ELSE /\ collection' = Append(collection, r.image)
                  /\ UNCHANGED <<renders, r_pc>>
  /\ UNCHANGED <<rodeoVars, hash_salt, inspoVars, script>>

\* the loop is over: execute_script returns namespace['collection']
execute_script ==
  /\ r_pc = "generate_collection"
  /\ Len(collection) = Max(1, script.NUM_PIECES)
  /\ renders' = Append(renders, Rendered(collection))
  /\ r_pc' = "idle"
  /\ UNCHANGED <<rodeoVars, processVars, inspoVars, script, collection>>

NextRender ==
  \/ \E inspiration \in Inspirations : generate_art_script(inspiration)
  \/ generate_collection
  \/ execute_script
  \/ NewProcess

SpecRender == InitRender /\ [][NextRender]_vars

\* ------------------------------- _generate_inspiration_words, called directly
MaxWordCalls == 2

Usdc == assets[2]

\* the balance maps passed: none, 1, 0.5 + 0.5, 1.5, and 0.25 + 1.25
WordBalances ==
  { <<>>,
    <<[k |-> Eth, v |-> 1000000]>>,
    <<[k |-> Eth, v |-> 500000], [k |-> Usdc, v |-> 500000]>>,
    <<[k |-> Eth, v |-> 1500000]>>,
    <<[k |-> Eth, v |-> 250000], [k |-> Usdc, v |-> 1250000]>> }

InitWords ==
  /\ RodeoIdle
  /\ hash_salt \in HashSalts
  /\ rng \in RngStarts
  /\ InspoIdle
  /\ RenderIdle

\* agent._generate_inspiration_words(b, theme)
CallWords(b, theme) ==
  /\ Len(worded) < MaxWordCalls
  /\ LET r == _generate_inspiration_words(b, theme)
     IN /\ rng' = r.rng
        /\ worded' = Append(worded, [balances |-> b, theme |-> theme,
                                     words |-> r.picked])
  /\ UNCHANGED <<rodeoVars, hash_salt, ledger, d_pc, balances, inspo, renderVars>>

NextWords == \E b \in WordBalances, theme \in Range(themes) : CallWords(b, theme)

SpecWords == InitWords /\ [][NextWords]_vars

\* ------------------------- two processes publishing on one store file
MaxProcCalls == 2

\* everything but the two processes
soloVars == <<collections, file, fresh, lastOp, now, pc, calls, wallet_network,
              call_args, collection_address, token_id, txs, entry_store,
              results, initial, processVars, inspoVars, renderVars>>

InitShared == RodeoIdle /\ ArtIdle

\* a transaction or a file write of process p
Event(p, method, address, status, members) ==
  [proc |-> p, network_id |-> procs[p].network_id, method |-> method,
   address |-> address, status |-> status, members |-> members]

\* the address of the contract the factory creates next: every creation
\* yields a contract of its own
NewCollection ==
  Rep(1 + Cardinality({i \in 1..Len(shared_log) :
                         shared_log[i].method = "createMultiTokenCollection"}),
      AddrHexLen)

\* the process imports the module: config = RodeoConfig() loads the file
ImportConfig(p) ==
  /\ procs[p].pc = "absent"
  /\ procs' = [procs EXCEPT ![p].pc = "idle",
                            ![p].collections = _load_collections(shared_file),
                            ![p].loaded = _load_collections(shared_file)]
  /\ UNCHANGED <<soloVars, shared_file, shared_log>>

\* post_to_rodeo up to the lookup of initialize_collection, which reads the
\* process's own _collections
StartPublish(p, network_id) ==
  /\ procs[p].pc = "idle"
  /\ procs[1].calls + procs[2].calls < MaxProcCalls
  /\ LET stored == get_collection_address(procs[p].collections, network_id) IN
     procs' = [procs EXCEPT ![p].calls = @ + 1,
                            ![p].network_id = network_id,
                            ![p].collection_address =
                               IF Truthy(stored) THEN stored ELSE Nil,
                            ![p].pc = IF Truthy(stored) THEN "create_token"
                                                        ELSE "invoke_create"]
  /\ UNCHANGED <<soloVars, shared_file, shared_log>>

\* initialize_collection up to the store write: createMultiTokenCollection
\* and its wait, the address from the receipt, grantMinter and its wait
ProcCreateCollection(p, ok) ==
  /\ procs[p].pc = "invoke_create"
  /\ shared_log' = shared_log \o
       <<Event(p, "createMultiTokenCollection",
               get_network_config(procs[p].network_id).config.factory_address,
               IF ok THEN "confirmed" ELSE "failed", <<>>)>> \o
       (IF ok THEN <<Event(p, "grantMinter", NewCollection, "confirmed", <<>>)>>
              ELSE <<>>)
  /\ procs' = IF ok
       THEN [procs EXCEPT ![p].collection_address = NewCollection,
                          ![p].pc = "set_record"]
       ELSE [procs EXCEPT ![p].pc = "idle", ![p].network_id = ""]
  /\ UNCHANGED <<soloVars, shared_file>>

\* mutant: the file is read again and the new record merged into it
ProcSetCollectionAddress_Merges(p, saved) ==
  /\ procs[p].pc = "set_record"
  /\ LET d == set_collection_address(procs[p].collections, procs[p].network_id,
                                     procs[p].collection_address)
         merged == set_collection_address(_load_collections(shared_file),
                                          procs[p].network_id,
                                          procs[p].collection_address)
     IN /\ procs' = [procs EXCEPT ![p].collections = d, ![p].pc = "create_token"]
        /\ shared_file' = _save_collections(merged, shared_file, saved)
        /\ shared_log' = Append(shared_log,
             Event(p, "save", procs[p].collection_address, saved, d))
  /\ UNCHANGED soloVars

\* config.set_collection_address: the process's whole _collections is
\* written over the file
ProcSetCollectionAddress(p, saved) ==
  /\ procs[p].pc = "set_record"
  /\ LET d == set_collection_address(procs[p].collections, procs[p].network_id,
                                     procs[p].collection_address)
     IN /\ procs' = [procs EXCEPT ![p].collections = d, ![p].pc = "create_token"]
        /\ shared_file' = _save_collections(d, shared_file, saved)
        /\ shared_log' = Append(shared_log,
             Event(p, "save", procs[p].collection_address, saved, d))
  /\ UNCHANGED soloVars

\* create_token on the address the collection step returned, create_sale,
\* and post_to_rodeo returns
ProcCreateToken(p) ==
  /\ procs[p].pc = "create_token"
  /\ shared_log' = shared_log \o
       <<Event(p, "createToken", procs[p].collection_address, "confirmed", <<>>),
         Event(p, "createFixedPriceSale",
               get_network_config(procs[p].network_id).config.drop_market_address,
               "confirmed", <<>>)>>
  /\ procs' = [procs EXCEPT ![p].pc = "idle", ![p].network_id = "",
                            ![p].collection_address = Nil]
  /\ UNCHANGED <<soloVars, shared_file>>

NextShared ==
  \/ \E p \in ProcIds : ImportConfig(p)
  \/ \E p \in ProcIds, n \in SupportedNetworks : StartPublish(p, n)
  \/ \E p \in ProcIds, ok \in BOOLEAN : ProcCreateCollection(p, ok)
  \/ \E p \in ProcIds, saved \in SaveOutcomes : ProcSetCollectionAddress(p, saved)
  \/ \E p \in ProcIds : ProcCreateToken(p)

SpecShared == InitShared /\ [][NextShared]_vars

\* ------------------------------------------------------ claims: vocabulary
CREATE == "createMultiTokenCollection"
GRANT == "grantMinter"
TOKEN == "createToken"
SALE == "createFixedPriceSale"

TxIndices == 1..Len(txs)
TxsOfCall(c) == SelectSeq(txs, LAMBDA t : t.call = c)
MethodsOfCall(c) == [i \in 1..Len(TxsOfCall(c)) |-> TxsOfCall(c)[i].method]
IsPrefix(s, t) == Len(s) <= Len(t) /\ s = SubSeq(t, 1, Len(s))

FinishedCalls == 1..Len(results)
Succeeded(c) == results[c].ret.kind = "success"

\* the scheme test and the shape of an address, stated on their own
HasIpfsScheme(u) == Len(u) >= 7 /\ \A i \in 1..7 : u[i] = IPFS_PREFIX[i]
LooksLikeAddress(a) == Len(a) = 40 /\ \A i \in 1..40 : a[i] >= 0 /\ a[i] <= 15
HasRecord(a) == a # Nil /\ a # <<>>

\* call c issued a confirmed creation and, after it, a confirmed grant
EnsureConfirmed(c) ==
  \E i, j \in TxIndices :
    /\ i < j /\ txs[i].call = c /\ txs[j].call = c
    /\ txs[i].method = CREATE /\ txs[i].status = "confirmed"
    /\ txs[j].method = GRANT /\ txs[j].status = "confirmed"

\* the record the store held for the call's network when call c began
RecordBefore(c) ==
  IF c <= Len(results) THEN results[c].record_before
  ELSE DictGet(entry_store[1], wallet_network)

\* ---------------------------------------------------------------------- C1
\* C1: when the store starts without a record for a network and the first two
\* publish calls both succeed on that network, the two calls together issue
\* exactly one createMultiTokenCollection and one grantMinter transaction, the
\* second call issues neither, and both calls return the same collection
\* address.
C1_TwoCallsOnSameEmptyNetwork ==
  /\ Len(results) >= 2
  /\ Succeeded(1) /\ Succeeded(2)
  /\ results[1].network_id = results[2].network_id
  /\ ~HasRecord(DictGet(initial, results[1].network_id))

C1_PublishTwiceCreatesOnce ==
  C1_TwoCallsOnSameEmptyNetwork =>
    /\ Cardinality({i \in TxIndices : txs[i].call \in {1, 2} /\ txs[i].method = CREATE}) = 1
    /\ Cardinality({i \in TxIndices : txs[i].call \in {1, 2} /\ txs[i].method = GRANT}) = 1
    /\ \A i \in TxIndices : txs[i].call = 2 => txs[i].method \in {TOKEN, SALE}
    /\ results[2].ret.collection_address = results[1].ret.collection_address

C1_Witness == C1_TwoCallsOnSameEmptyNetwork /\ Len(TxsOfCall(2)) = 2

\* ---------------------------------------------------------------------- C2
AllConfirmed(c) == \A i \in TxIndices : txs[i].call = c => txs[i].status = "confirmed"

C2_FreshValidCall(c) ==
  /\ HasIpfsScheme(results[c].image_uri)
  /\ results[c].network_id \in {"base-mainnet", "base-sepolia"}
  /\ ~HasRecord(results[c].record_before)
  /\ AllConfirmed(c)

C2_FourInOrder(c) ==
  /\ MethodsOfCall(c) = <<CREATE, GRANT, TOKEN, SALE>>
  /\ Succeeded(c)
  /\ LooksLikeAddress(results[c].ret.collection_address)
  /\ results[c].ret.token_id # NoToken
  /\ results[c].ret.sale_tx_hash # ""
  /\ results[c].ret.sale_tx_hash = TxsOfCall(c)[4].receipt.transaction_hash

\* C2 as stated: a finished publish call with a valid image reference on a
\* supported network without a record, all of whose transactions succeeded,
\* issued exactly create, grant, token, sale in this order and returned success
\* with the collection address, a token id and the sale transaction id.
C2_AsStated ==
  \A c \in FinishedCalls : C2_FreshValidCall(c) => C2_FourInOrder(c)

\* the creation receipt of call c carries the event with the address
C2_ReceiptHasEvent(c) ==
  \E i \in TxIndices :
    txs[i].call = c /\ txs[i].method = CREATE /\ txs[i].receipt.logs = "event"

\* C2, amended: the same, for calls whose creation receipt carries the
\* collection address (a first log with more than one topic whose second topic
\* ends in 40 hex digits).
C2_FourTransactionsInOrder ==
  \A c \in FinishedCalls :
    (C2_FreshValidCall(c) /\ C2_ReceiptHasEvent(c)) => C2_FourInOrder(c)

C2_Witness ==
  \E c \in FinishedCalls :
    C2_FreshValidCall(c) /\ C2_ReceiptHasEvent(c) /\ Succeeded(c)

\* ---------------------------------------------------------------------- C3
\* C3: the store (memory and file) differs from what the call found only when
\* that call's creation and grant transactions are both confirmed; so while
\* either is unissued, pending or failed the store is as the call found it,
\* and the record written is the address the grant was sent to.
C3_StoreWrittenAfterBothConfirmed ==
  /\ (pc # "idle" /\ <<collections, file>> # entry_store) =>
        /\ EnsureConfirmed(calls)
        /\ \E j \in TxIndices :
             /\ txs[j].call = calls /\ txs[j].method = GRANT
             /\ DictGet(collections, wallet_network) = txs[j].contract_address
  /\ \A c \in FinishedCalls : results[c].store_changed => EnsureConfirmed(c)
  /\ pc \in {"invoke_create", "wait_create", "invoke_grant", "wait_grant"} =>
        <<collections, file>> = entry_store

C3_Witness ==
  /\ pc = "create_token"
  /\ collections # entry_store[1]
  /\ EnsureConfirmed(calls)

\* ---------------------------------------------------------------------- C4
C4_NoEventLog(c) ==
  \E i \in TxIndices :
    /\ txs[i].call = c /\ txs[i].method = CREATE /\ txs[i].status = "confirmed"
    /\ \A k \in 1..Len(ReceiptLogs[txs[i].receipt.logs]) :
         Len(ReceiptLogs[txs[i].receipt.logs][k]) <= 1

\* C4: a finished call whose creation receipt has no log with more than one
\* topic returned the collection-initialization error, left no record for its
\* network in memory or in the file, and issued no transaction but the
\* creation.
C4_NoAddressNothingPersisted ==
  \A c \in FinishedCalls :
    C4_NoEventLog(c) =>
      /\ results[c].ret.kind = "error"
      /\ IsPrefix(<<"Error posting to Rodeo", "Failed to initialize collection">>,
                  results[c].ret.msg)
      /\ ~HasRecord(results[c].record_after)
      /\ ~HasRecord(results[c].file_record_after)
      /\ ~results[c].store_changed
      /\ MethodsOfCall(c) = <<CREATE>>

C4_Witness == \E c \in FinishedCalls : C4_NoEventLog(c)

\* ---------------------------------------------------------------------- C5
ErrUnsupported == [kind |-> "error", msg |-> <<"Error posting to Rodeo", "Unsupported network">>]

C5_Unsupported(c) == results[c].network_id \notin {"base-mainnet", "base-sepolia"}

\* C5 as stated: every finished call on a network outside the two configured
\* ones returned the "Unsupported network" error, issued no transaction and
\* left the store as it was.
C5_AsStated ==
  \A c \in FinishedCalls :
    C5_Unsupported(c) =>
      /\ results[c].ret = ErrUnsupported
      /\ TxsOfCall(c) = <<>>
      /\ ~results[c].store_changed

\* C5, amended: such a call issued no transaction and left the store as it
\* was; it returned the "Unsupported network" error when its image reference
\* starts with ipfs://, and the image-URI error otherwise (the URI is checked
\* first).
C5_UnsupportedNetworkRejected ==
  \A c \in FinishedCalls :
    C5_Unsupported(c) =>
      /\ results[c].ret.kind = "error"
      /\ HasIpfsScheme(results[c].image_uri) => results[c].ret = ErrUnsupported
      /\ ~HasIpfsScheme(results[c].image_uri) =>
            results[c].ret.msg = <<"Error: Image URI must start with 'ipfs://'">>
      /\ TxsOfCall(c) = <<>>
      /\ ~results[c].store_changed

C5_Witness ==
  \E c, d \in FinishedCalls :
    /\ C5_Unsupported(c) /\ HasIpfsScheme(results[c].image_uri)
    /\ HasRecord(DictGet(collections, "base-sepolia"))
    /\ C5_Unsupported(d) /\ ~HasIpfsScheme(results[d].image_uri)

\* ---------------------------------------------------------------------- C6
\* C6: every finished call whose image reference does not start with ipfs://
\* returned an error, issued no transaction and left the store as it was.
C6_BadImageUriRejected ==
  \A c \in FinishedCalls :
    ~HasIpfsScheme(results[c].image_uri) =>
      /\ results[c].ret.kind = "error"
      /\ TxsOfCall(c) = <<>>
      /\ ~results[c].store_changed

C6_Witness ==
  \E c \in FinishedCalls :
    /\ results[c].image_uri = <<"i","p","f","s",":","/">>
    /\ results[c].network_id = "base-sepolia"

\* ---------------------------------------------------------------------- C7
StepError(method) ==
  CASE method = CREATE -> "Failed to initialize collection"
    [] method = GRANT -> "Failed to initialize collection"
    [] method = TOKEN -> "Failed to create token"
    [] OTHER -> "Failed to create sale"

C7_Failed(i) == txs[i].status \in {"raised", "failed"}

C8_StrictlySequential ==
  /\ \A i \in TxIndices : txs[i].status = "pending" => i = Len(txs)
  /\ txs # <<>> /\ txs[Len(txs)].status = "pending" =>
        pc \in {"wait_create", "wait_grant", "wait_token", "wait_sale"}
  /\ \A i \in TxIndices :
       (i > 1 /\ txs[i - 1].call = txs[i].call) => txs[i - 1].status = "confirmed"
  /\ \A c \in 1..calls :
       IF HasRecord(RecordBefore(c))
         THEN IsPrefix(MethodsOfCall(c), <<TOKEN, SALE>>)
         ELSE IsPrefix(MethodsOfCall(c), <<CREATE, GRANT, TOKEN, SALE>>)
  /\ \A i \in TxIndices :
       txs[i].method = TOKEN =>
         /\ LooksLikeAddress(txs[i].contract_address)
         /\ \/ txs[i].contract_address = RecordBefore(txs[i].call)
            \/ /\ EnsureConfirmed(txs[i].call)
               /\ i > 1 /\ txs[i - 1].method = GRANT
               /\ txs[i - 1].contract_address = txs[i].contract_address
  /\ \A i \in TxIndices :
       txs[i].method = SALE =>
         /\ i > 1 /\ txs[i - 1].call = txs[i].call
         /\ txs[i - 1].method = TOKEN /\ txs[i - 1].status = "confirmed"
         /\ txs[i].args.tokenId = txs[i - 1].args.tokenId

C8_Witness ==
  /\ pc = "wait_sale"
  /\ MethodsOfCall(calls) = <<CREATE, GRANT, TOKEN, SALE>>
  /\ \E c \in FinishedCalls : MethodsOfCall(c) = <<TOKEN, SALE>>

\* ---------------------------------------------------------------------- C9
ConfirmedCreations(n) ==
  {i \in TxIndices : /\ txs[i].network_id = n /\ txs[i].method = CREATE
                     /\ txs[i].status = "confirmed"}

C10_SetGetReload ==
  /\ lastOp.op = "set" => get_collection_address(collections, lastOp.network_id) = lastOp.address
  /\ \A n \in NetworkIds \ lastOp.set_keys : get_collection_address(collections, n) = Nil
  /\ lastOp.op = "init" =>
       \A n \in NetworkIds :
         get_collection_address(fresh, n) = get_collection_address(collections, n)

\* --------------------------------------------------------------------- C11
Pairs(d) == {<<d[i].k, d[i].v>> : i \in 1..Len(d)}

\* the mapping a reader of the file obtains, or none when the file is missing
\* or does not parse
PersistedMapping == IF file.status = "ok" THEN {Pairs(JsonLoad(file.members))} ELSE {}

\* C11: whenever set, or clear of a present network, has returned normally,
\* the file holds a well-formed mapping equal to the mapping in memory.
C11_FileEqualsMemoryAfterMutation ==
  lastOp.op \in {"set", "clear"} => PersistedMapping = {Pairs(collections)}

\* --------------------------------------------------------------------- C12
\* the instance was constructed over a missing or corrupt file
C12_ConstructedOverBadFile == entry_store[2].status \in {"missing", "corrupt"}

\* the only mutations since construction are sets of one network
C12_FirstSet ==
  /\ C12_ConstructedOverBadFile
  /\ lastOp.op = "set"
  /\ Keys(collections) = {lastOp.network_id}

\* C12: an instance constructed over a missing or corrupt file starts with the
\* empty mapping and get returns absent for every network; after its next set
\* the file is well-formed, holds exactly the new mapping, and loads to what
\* the instance holds.
C12_BadFileStartsEmptyAndIsRepaired ==
  /\ (C12_ConstructedOverBadFile /\ lastOp.op = "none") =>
        /\ collections = <<>>
        /\ \A n \in NetworkIds : get_collection_address(collections, n) = Nil
  /\ C12_FirstSet =>
        /\ file = FileOk(<<[k |-> lastOp.network_id, v |-> lastOp.address]>>)
        /\ Pairs(_load_collections(file)) = Pairs(collections)

\* ------------------------------------------------- claims: rendering
Renderings == 1..Len(renders)

\* --------------------------------------------------------------------- C13
\* C13: every finished execute_script call returned max(1, NUM_PIECES)
\* images, so at least one, and every flat image among them is a canvas of
\* COLORS[0].
C13_ReturnsPieceCountImages ==
  \A i \in Renderings :
    /\ renders[i].images # <<>>
    /\ Len(renders[i].images) = Max(1, renders[i].script.NUM_PIECES)
    /\ \A p \in 1..Len(renders[i].images) :
         renders[i].images[p].kind = "flat" =>
           renders[i].images[p].background = renders[i].script.COLORS[1]

\* --------------------------------------------------------------------- C14
\* C14: two finished execute_script calls for the same inspiration and theme
\* returned the same images, whatever was drawn or rendered before each.
C14_RenderDeterministic ==
  \A i, j \in Renderings :
    renders[i].script = renders[j].script => renders[i].images = renders[j].images

\* --------------------------------------------------------------------- C15
\* C15: the image at position p of a returned collection is the image
\* create_art makes for index p - 1 from the inspiration and the theme alone,
\* whatever state the earlier pieces left the random generator in; and it was
\* made with index p - 1.
C15_PieceDependsOnIndexOnly ==
  \A i \in Renderings :
    \A p \in 1..Len(renders[i].images) :
      /\ renders[i].images[p].token_id = p - 1
      /\ \A s \in 0..(RngMod - 1) :
           create_art(p - 1, renders[i].script.INSPIRATION_DATA,
                      renders[i].script.COLORS, renders[i].script.THEME,
                      renders[i].hash_salt, s).image = renders[i].images[p]

\* ------------------------------------------------- claims: the art agents
Derivations == 1..Len(inspo)

\* the dicts that calls of get_onchain_inspiration built from balances
BuiltRecords == {inspo[i].built[1] : i \in {j \in Derivations : inspo[j].built # <<>>}}

IsHexColour(c) ==
  /\ Len(c) = 7 /\ c[1] = "#"
  /\ \A i \in 2..7 : c[i] \in Range(HexDigits) \cup {"A", "B", "C", "D", "E", "F"}

\* --------------------------------------------------------------------- C16
C16_WithinBounds(r) ==
  /\ Len(r.color_palette) = 5
  /\ r.num_pieces \in 1..420
  /\ Len(r.inspiration_words) \in 3..5
  /\ r.theme \in {"Cyberpunk", "Nature", "Abstract", "Geometric",
                  "Space", "Ocean", "Urban", "Minimal"}

\* C16: every record get_onchain_inspiration returned, on the default path
\* too, and every record it built from balances, has a palette of exactly 5
\* entries, num_pieces in 1..420, 3 to 5 words and one of the 8 themes.
C16_DerivedRecordWithinBounds ==
  /\ \A i \in Derivations : C16_WithinBounds(inspo[i].returned)
  /\ \A r \in BuiltRecords : C16_WithinBounds(r)

C16_Witness ==
  \E i, j \in Derivations :
    /\ ~inspo[i].wallet_ok
    /\ inspo[j].wallet_ok /\ SumValues(inspo[j].balances) > 0
    /\ inspo[j].built[1].num_pieces > 128

\* --------------------------------------------------------------------- C17
\* C17: every started call of get_onchain_inspiration returns a record, and a
\* call in which get_art_wallet() or a later step raised returns the default
\* record: the five fixed colours, theme Abstract, the five fixed words and
\* no balances.
C17_DefaultOnFailure ==
  \A i \in Derivations :
    inspo[i].raised =>
      /\ inspo[i].returned.color_palette =
           << <<"#","F","F","0","0","0","0">>, <<"#","0","0","F","F","0","0">>,
              <<"#","0","0","0","0","F","F">>, <<"#","F","F","F","F","0","0">>,
              <<"#","F","F","0","0","F","F">> >>
      /\ inspo[i].returned.theme = "Abstract"
      /\ inspo[i].returned.inspiration_words =
           <<"digital", "flow", "energy", "motion", "balance">>
      /\ inspo[i].returned.balances = <<>>

C17_Witness ==
  \E i, j \in Derivations :
    /\ ~inspo[i].wallet_ok /\ inspo[i].raised
    /\ inspo[j].wallet_ok /\ inspo[j].raised
    /\ inspo[j].built[1] # inspo[j].returned

\* --------------------------------------------------------------------- C18
C18_Answer(i) == IF ledger[i] = Raised THEN 0 ELSE ledger[i]

C18_ReadsAsAnswered(b) ==
  \A i \in 1..Len(b) : b[i].k = assets[i] /\ b[i].v = C18_Answer(i)

\* C18: the balances read so far hold, for each asset in turn, zero when its
\* read raised and the wallet's answer otherwise, whatever the other reads
\* did; and the map _get_wallet_balances returns has one entry for each of the
\* 5 tracked assets.
C18_BalanceReadsIsolated ==
  /\ C18_ReadsAsAnswered(balances)
  /\ \A i \in Derivations :
       inspo[i].wallet_ok =>
         /\ Len(inspo[i].balances) = 5
         /\ Keys(inspo[i].balances) = Range(assets)
         /\ C18_ReadsAsAnswered(inspo[i].balances)

C18_Witness ==
  \E i \in Derivations :
    /\ inspo[i].wallet_ok
    /\ ledger[2] = Raised /\ inspo[i].balances[2].v = 0
    /\ inspo[i].balances[3].v > 0
    /\ ledger[4] = Raised /\ inspo[i].balances[5].v > 0

\* --------------------------------------------------------------------- C19
\* C19: every palette built from balances has 5 pairwise-distinct entries,
\* each "#" and 6 hex digits, the first three being the colours of the three
\* contract addresses.
C19_PaletteDistinct ==
  \A r \in BuiltRecords :
    /\ Len(r.color_palette) = 5
    /\ \A i \in 1..5 : IsHexColour(r.color_palette[i])
    /\ \A i \in 1..3 : r.color_palette[i] = <<"#">> \o SubSeq(contracts[i], 3, 8)
    /\ \A i, j \in 1..5 : i # j => r.color_palette[i] # r.color_palette[j]

\* --------------------------------------------------------------------- C20
\* C20: two calls that read the same balances, in the same process or in two,
\* select the same theme, and the theme selected is one of the 8 themes.
C20_ThemeDeterministic ==
  /\ \A r \in BuiltRecords : r.theme \in Range(themes)
  /\ \A i, j \in Derivations :
       (inspo[i].built # <<>> /\ inspo[j].built # <<>>
          /\ inspo[i].balances = inspo[j].balances)
         => inspo[i].built[1].theme = inspo[j].built[1].theme

\* --------------------------------------------------------------------- C21
WordCalls == 1..Len(worded)

\* C21: every call selected 3 to 5 pairwise-distinct words, all from the
\* vocabulary of the theme passed, and two calls with the same theme and
\* balances of the same total selected the same words.
C21_WordsFromThemeAndTotal ==
  /\ \A i \in WordCalls :
       /\ Len(worded[i].words) \in 3..5
       /\ \A p, q \in 1..Len(worded[i].words) :
            p # q => worded[i].words[p] # worded[i].words[q]
       /\ Range(worded[i].words) \subseteq Range(theme_words[worded[i].theme])
  /\ \A i, j \in WordCalls :
       (/\ worded[i].theme = worded[j].theme
        /\ SumValues(worded[i].balances) = SumValues(worded[j].balances))
         => worded[i].words = worded[j].words

\* -------------------------------------------------- claims: the publish steps
\* the metadata document a createToken transaction carries
TokenJson(i) == txs[i].args.tokenURI.json

\* name, description and image are present and not empty
MetadataFilled(m) ==
  /\ required_fields \subseteq DOMAIN m
  /\ m.name # "" /\ m.description # "" /\ m.image # <<>>

\* --------------------------------------------------------------------- C22
\* C22: the token step issues a createToken transaction only for a metadata
\* document whose name, description and image fields are present and not
\* empty and whose image has the ipfs:// scheme; a call whose name or
\* description is empty ends in an error and issues no createToken
\* transaction.
C22_MintValidatesMetadata ==
  \A i \in TxIndices :
    txs[i].method = TOKEN =>
      /\ MetadataFilled(TokenJson(i))
      /\ HasIpfsScheme(TokenJson(i).image)

\* --------------------------------------------------------------------- C23
SaleTxs == {i \in TxIndices : txs[i].method = SALE}

\* market, price and payee of sale transaction i
C23_MarketPricePayee(i) ==
  /\ ~get_network_config(txs[i].network_id).raised
  /\ txs[i].contract_address =
       get_network_config(txs[i].network_id).config.drop_market_address
  /\ txs[i].args.pricePerQuantity = 0
  /\ txs[i].args.creatorPaymentAddress = WalletAddress

\* C23 as stated: every createFixedPriceSale transaction goes to the market
\* address of the wallet's network with price 0, the wallet's own address as
\* payee, and a start time that is a reading of the clock during the call
\* (not before the clock's first value, not after its present one).
C23_AsStated ==
  \A i \in SaleTxs :
    /\ C23_MarketPricePayee(i)
    /\ txs[i].args.generalAvailabilityStartTime >= StartMs \div 1000
    /\ txs[i].args.generalAvailabilityStartTime <= now

\* C23: every createFixedPriceSale transaction goes to the market address of
\* the wallet's network with price 0 and the wallet's own address as payee;
\* its start-time argument is the constant 0, which asks the market for
\* immediate availability, never a clock reading.
C23_SaleTerms ==
  \A i \in SaleTxs :
    /\ C23_MarketPricePayee(i)
    /\ txs[i].args.generalAvailabilityStartTime = 0

C23_Witness ==
  \E i \in SaleTxs : txs[i].status = "confirmed" /\ now > StartMs

\* --------------------------------------------------------------------- C24
\* an inspiration of the degenerate kind: no piece asked for, a palette of
\* one colour, a theme outside the vocabulary and no balances
Degenerate(sc) ==
  /\ sc.NUM_PIECES <= 0
  /\ Len(sc.COLORS) = 1 /\ GetRgbOk(sc.COLORS[1])
  /\ sc.THEME \notin Range(themes)
  /\ sc.INSPIRATION_DATA = <<>>

PieceCount(n) == IF n >= 1 THEN n ELSE 1

\* C24: a collection that generate_collection returned holds max(1,
\* NUM_PIECES) images; and for a degenerate inspiration the call does return,
\* exactly one image, 2048 by 2048, RGB, with COLORS[0] as background.
C24_AtLeastOnePiece ==
  \A i \in Renderings :
    /\ renders[i].images # <<>> =>
         Len(renders[i].images) = PieceCount(renders[i].script.NUM_PIECES)
    /\ Degenerate(renders[i].script) =>
         /\ Len(renders[i].images) = 1
         /\ renders[i].images[1].size = <<2048, 2048>>
         /\ renders[i].images[1].mode = "RGB"
         /\ renders[i].images[1].background = renders[i].script.COLORS[1]

C24_Witness ==
  \E i, j \in Renderings :
    /\ Degenerate(renders[i].script) /\ renders[i].script.NUM_PIECES < 0
    /\ Len(renders[i].images) = 1
    /\ renders[j].script.NUM_PIECES = 2 /\ Len(renders[j].images) = 2

\* --------------------------------------------------------------------- C25
\* the logs of the receipt of transaction i
LogsOf(i) == ReceiptLogs[txs[i].receipt.logs]

\* the last 40 characters of a topic of at least 40 characters
Last40(topic) == [n \in 1..40 |-> topic[Len(topic) - 40 + n]]

\* k is the first log of the receipt, in order, with more than one topic
C25_FirstWithTopics(logs, k) ==
  /\ k \in 1..Len(logs)
  /\ Len(logs[k]) > 1
  /\ \A j \in 1..(k - 1) : Len(logs[j]) <= 1

\* C25: the address a grantMinter transaction is sent to is the last 40 hex
\* digits of the second topic of the first log, in receipt order, of the
\* call's createMultiTokenCollection receipt that has more than one topic:
\* logs with no or one topic before it are skipped, logs after it are not
\* looked at.
C25_AddressFromFirstEventLog ==
  \A i \in TxIndices :
    txs[i].method = GRANT =>
      /\ i > 1 /\ txs[i - 1].method = CREATE /\ txs[i - 1].call = txs[i].call
      /\ txs[i - 1].status = "confirmed"
      /\ LET logs == LogsOf(i - 1) IN
         \E k \in 1..Len(logs) :
           /\ C25_FirstWithTopics(logs, k)
           /\ Len(logs[k][2]) >= 40
           /\ txs[i].contract_address = Last40(logs[k][2])

\* a grant after a receipt with skipped logs before the event log and a
\* further event log after it
C25_Witness ==
  \E i \in TxIndices :
    /\ txs[i].method = GRANT /\ i > 1
    /\ \E k \in 2..(Len(LogsOf(i - 1)) - 1) :
         /\ C25_FirstWithTopics(LogsOf(i - 1), k)
         /\ Len(LogsOf(i - 1)[k + 1]) > 1
         /\ Last40(LogsOf(i - 1)[k + 1][2]) # Last40(LogsOf(i - 1)[k][2])

\* --------------------------------------------------------------------- C26
\* call c has returned an error after issuing its createToken transaction:
\* it failed in the token or the sale step, the collection step having
\* succeeded
C26_FailedAfterEnsure(c) ==
  /\ c \in FinishedCalls
  /\ ~Succeeded(c)
  /\ \E i \in TxIndices : txs[i].call = c /\ txs[i].method = TOKEN

\* C26: after a call that failed in the token or the sale step, the store
\* the calls consult still holds the collection record the call used, and the
\* next call on that network issues no createMultiTokenCollection and no
\* grantMinter transaction: only createToken, sent to the recorded address,
\* and createFixedPriceSale.
C26_RetryReusesRecord ==
  \A c \in FinishedCalls :
    C26_FailedAfterEnsure(c) =>
      /\ HasRecord(results[c].record_after)
      /\ \A i \in TxIndices :
           (txs[i].call = c /\ txs[i].method = TOKEN) =>
             txs[i].contract_address = results[c].record_after
      /\ \A i \in TxIndices :
           (txs[i].call = c + 1 /\ txs[i].network_id = results[c].network_id) =>
             /\ txs[i].method \in {TOKEN, SALE}
             /\ txs[i].method = TOKEN =>
                  txs[i].contract_address = results[c].record_after

\* the first call created the collection and failed in the sale, the second
\* succeeded on the same network with two transactions
C26_Witness ==
  /\ Len(results) = 2
  /\ C26_FailedAfterEnsure(1) /\ EnsureConfirmed(1)
  /\ \E i \in TxIndices : txs[i].call = 1 /\ txs[i].method = SALE
  /\ Succeeded(2) /\ results[2].network_id = results[1].network_id
  /\ MethodsOfCall(2) = <<TOKEN, SALE>>

\* --------------------------------------------------------------------- C27
\* the balance factor of a script, in millionths
FactorOf(sc) == balance_factor(SumValues(sc.INSPIRATION_DATA))

\* C27: every image drawn for theme Geometric has its flow field built with
\* 1.5 times the base scale 0.005 x balance factor (flow_scale holds the
\* scale in units of 10^-9), and is drawn with twice the base curve count and
\* half the base curve length.
C27_GeometricMultipliersUsed ==
  \A i \in Renderings :
    \A p \in 1..Len(renders[i].images) :
      (renders[i].script.THEME = "Geometric" /\ renders[i].images[p].kind = "art") =>
        /\ 2 * renders[i].images[p].flow_scale = 3 * (5 * FactorOf(renders[i].script))
        /\ renders[i].images[p].num_curves
             = 2 * ((50 * FactorOf(renders[i].script)) \div Micro)
        /\ renders[i].images[p].curve_length
             = ((200 * FactorOf(renders[i].script)) \div Micro) \div 2

\* --------------------------------------------------------------------- C28
\* C28: when no step of a call blocks for ever, every publish call that was
\* started returns a result, success or error; and no call issues more than 4
\* transactions (no step is tried again).
C28_EveryCallReturns ==
  /\ [](\A c \in 1..calls : Len(TxsOfCall(c)) <= 4)
  /\ \A c \in 1..MaxCalls :
       (calls >= c) ~> (Len(results) >= c /\ results[c].ret.kind \in {"success", "error"})

\* a call that issued 4 transactions, the last of which failed, has returned
C28_Witness ==
  \E c \in FinishedCalls :
    /\ Len(TxsOfCall(c)) = 4
    /\ ~Succeeded(c)
    /\ pc = "idle"

\* --------------------------------------------------------------------- C30
\* the transaction of call c with this method (a call issues at most one)
TxOf(c, method) == CHOOSE i \in TxIndices : txs[i].call = c /\ txs[i].method = method

HasTx(c, method) == \E i \in TxIndices : txs[i].call = c /\ txs[i].method = method

\* C30: in a call that succeeded, the token id of the createToken transaction
\* is the one of the createFixedPriceSale transaction and of the result; and
\* the address createToken was invoked on is the sale's multiTokenContract,
\* the address in the result and in the viewer URL, and the address the
\* collection step returned: the stored record when the call found one, else
\* the address its grantMinter transaction was sent to.
C30_IdentifiersConsistent ==
  \A c \in FinishedCalls :
    Succeeded(c) =>
      /\ HasTx(c, TOKEN) /\ HasTx(c, SALE)
      /\ LET t == txs[TxOf(c, TOKEN)]
             s == txs[TxOf(c, SALE)]
             r == results[c].ret
         IN /\ t.args.tokenId = s.args.tokenId
            /\ t.args.tokenId = r.token_id
            /\ r.rodeo_url.token_id = r.token_id
            /\ t.contract_address = s.args.multiTokenContract
            /\ t.contract_address = r.collection_address
            /\ t.contract_address = r.rodeo_url.collection_address
            /\ IF HasRecord(results[c].record_before)
                 THEN t.contract_address = results[c].record_before
                 ELSE /\ HasTx(c, GRANT)
                      /\ t.contract_address = txs[TxOf(c, GRANT)].contract_address

\* two successful calls, the first creating the collection, the second
\* finding the record, with different token ids
C30_Witness ==
  /\ Len(results) = 2 /\ Succeeded(1) /\ Succeeded(2)
  /\ ~HasRecord(results[1].record_before) /\ HasRecord(results[2].record_before)
  /\ results[1].ret.token_id # results[2].ret.token_id

\* --------------------------------------------------------------------- C29
SharedEvents == 1..Len(shared_log)

\* the last write that touched the shared file, 0 when there is none
LastWrite ==
  LET w == {i \in SharedEvents : shared_log[i].method = "save"
                                  /\ shared_log[i].status # "open_failed"}
  IN IF w = {} THEN 0 ELSE CHOOSE i \in w : \A j \in w : j <= i

\* the record the shared file holds for a network
Persisted(network_id) ==
  get_collection_address(_load_collections(shared_file), network_id)

\* C29: nothing joins the two processes' lookups and writes.  The shared file
\* holds exactly what the last writer had in memory, whatever the other
\* process recorded before; and a process sends createToken to the address of
\* its own collection step (the collection it created and granted on, or the
\* record it loaded at import), whatever the file holds by then.
C29_LastWriterWins ==
  /\ LastWrite = 0 => shared_file = FileMissing
  /\ LastWrite # 0 =>
       IF shared_log[LastWrite].status = "ok"
         THEN /\ shared_file.status = "ok"
              /\ _load_collections(shared_file) = shared_log[LastWrite].members
         ELSE shared_file = FileCorrupt
  /\ \A i \in SharedEvents :
       shared_log[i].method = "createToken" =>
         \/ \E j \in 1..(i - 1) :
              /\ shared_log[j].proc = shared_log[i].proc
              /\ shared_log[j].method = "grantMinter"
              /\ shared_log[j].network_id = shared_log[i].network_id
              /\ shared_log[j].address = shared_log[i].address
         \/ shared_log[i].address =
              get_collection_address(procs[shared_log[i].proc].loaded,
                                     shared_log[i].network_id)

\* both processes created a collection for the same network, the file holds
\* the address written last, and the other process has minted into its own
\* collection after that write
C29_Witness ==
  \E p, q \in ProcIds, n \in SupportedNetworks :
    /\ p # q
    /\ \A r \in {p, q} :
         \E i \in SharedEvents :
           /\ shared_log[i].proc = r /\ shared_log[i].network_id = n
           /\ shared_log[i].method = "createMultiTokenCollection"
           /\ shared_log[i].status = "confirmed"
    /\ LastWrite # 0
    /\ shared_log[LastWrite].proc = q /\ shared_log[LastWrite].status = "ok"
    /\ Persisted(n) = shared_log[LastWrite].address
    /\ \E i \in SharedEvents :
         /\ i > LastWrite
         /\ shared_log[i].proc = p /\ shared_log[i].network_id = n
         /\ shared_log[i].method = "createToken"
         /\ shared_log[i].address # Persisted(n)
         /\ \E j \in 1..(LastWrite - 1) :
              /\ shared_log[j].proc = p /\ shared_log[j].method = "save"
              /\ shared_log[j].status = "ok"
              /\ shared_log[j].address = shared_log[i].address

====
